---- MODULE Spec2Model ----
(***************************************************************************)
(* Model of the WKC MCP server: the natural-language dispatcher            *)
(* (gemini_agent.py), the order intake pipeline (gemini_service.py), the   *)
(* document store adapter (firebase_client.py) and the HTTP handlers       *)
(* (main.py).                                                              *)
(*                                                                         *)
(* Model text is a sequence of lexemes.  Braces are lexemes of their own,  *)
(* so the regular expression \{.*\} and the JSON grammar are computed on   *)
(* the text and are not assumed.                                           *)
(***************************************************************************)
EXTENDS Integers, Sequences, FiniteSets, TLC

VARIABLES products, orders, productIds, orderIds, last, inflight, kept

vars == <<products, orders, productIds, orderIds, last, inflight, kept>>

(***************************************************************************)
(* Bounds of the model.                                                    *)
(***************************************************************************)
\* number of product documents the store assigns an id to
MaxProducts == 1
\* number of order documents the store assigns an id to
MaxOrders == 1
\* number of products one seller lists, where the listing is paged
MaxSellerProducts == 15
\* number of requests that are served at the same time
MaxRequests == 2

(***************************************************************************)
(* Python values that are not plain strings or integers.                   *)
(***************************************************************************)
JNull == [j |-> "null"]
JStr(s) == [j |-> "str", s |-> s]
JNum(n) == [j |-> "num", n |-> n]
JList == [j |-> "list"]
JObj(m) == [j |-> "obj", m |-> m]
\* the empty mapping {}
EmptyMap == [k \in {} |-> 0]
\* json.loads raising JSONDecodeError
ParseFail == [j |-> "fail"]

\* d.get(k, default) of a mapping
Get(d, k, default) == IF k \in DOMAIN d THEN d[k] ELSE default
\* {**d, **e}: e's entries win
Merge(d, e) == [k \in (DOMAIN d) \cup (DOMAIN e) |-> IF k \in DOMAIN e THEN e[k] ELSE d[k]]

(***************************************************************************)
(* Lexemes of a model text.                                                *)
(***************************************************************************)
LB == [t |-> "{"]
RB == [t |-> "}"]
\* words that are no JSON, `chars` characters long
Words(chars) == [t |-> "prose", chars |-> chars]
Prose == Words(5)
\* prose longer than the slice the intake pipeline keeps of an answer
LongProse == Words(250)
\* a JSON value without braces standing alone: 42, null, "abc", [1]
Lit(v) == [t |-> "lit", v |-> v]
\* "k": before a value
Key(k) == [k |-> k, t |-> "key"]
\* "k": v with a brace-free value v
Member(k, v) == [k |-> k, t |-> "member", v |-> v]
\* a comma-separated list of brace-free members, as the mapping it denotes
Pairs(m) == [m |-> m, t |-> "pairs"]

\* len() of a lexeme: a brace is one character, prose says its length, and
\* the JSON lexemes of the model are ten characters each
Chars(x) ==
    IF x.t = "prose" THEN x.chars
    ELSE IF x.t \in {"{", "}"} THEN 1
    ELSE 10

(***************************************************************************)
(* json.loads and re.search(r'\{.*\}', text, re.DOTALL) on a text.         *)
(***************************************************************************)
RECURSIVE CloseFrom(_, _, _)
\* index of the "}" that closes the brace nesting `depth` deep at i, 0 if none
CloseFrom(s, i, depth) ==
    IF i > Len(s) THEN 0
    ELSE IF s[i].t = "{" THEN CloseFrom(s, i + 1, depth + 1)
    ELSE IF s[i].t = "}"
         THEN IF depth = 1 THEN i ELSE CloseFrom(s, i + 1, depth - 1)
    ELSE CloseFrom(s, i + 1, depth)

\* index of the "}" matching the "{" at i, 0 if none
MatchClose(s, i) == CloseFrom(s, i + 1, 1)

RECURSIVE ParseValue(_)
RECURSIVE ParseBody(_, _, _)
\* the members between the braces of an object, from index i on
ParseBody(s, i, acc) ==
    IF i > Len(s) THEN [m |-> acc, ok |-> TRUE]
    ELSE IF s[i].t = "member"
         THEN ParseBody(s, i + 1, Merge(acc, (s[i].k :> s[i].v)))
    ELSE IF s[i].t = "pairs" THEN ParseBody(s, i + 1, Merge(acc, s[i].m))
    ELSE IF s[i].t = "key" /\ i + 1 <= Len(s) /\ s[i + 1].t = "lit"
         THEN ParseBody(s, i + 2, Merge(acc, (s[i].k :> s[i + 1].v)))
    ELSE IF s[i].t = "key" /\ i + 1 <= Len(s) /\ s[i + 1].t = "{"
            /\ MatchClose(s, i + 1) > 0
         THEN LET j == MatchClose(s, i + 1)
                  v == ParseValue(SubSeq(s, i + 1, j))
              IN  IF v.j = "fail" THEN [ok |-> FALSE]
                  ELSE ParseBody(s, j + 1, Merge(acc, (s[i].k :> v)))
    ELSE [ok |-> FALSE]

\* json.loads(text): the value, or ParseFail for JSONDecodeError
ParseValue(s) ==
    IF Len(s) = 1 /\ s[1].t = "lit" THEN s[1].v
    ELSE IF Len(s) >= 2 /\ s[1].t = "{" /\ MatchClose(s, 1) = Len(s)
         THEN LET b == ParseBody(SubSeq(s, 2, Len(s) - 1), 1, EmptyMap)
              IN  IF b.ok THEN JObj(b.m) ELSE ParseFail
    ELSE ParseFail

JsonLoads(s) == ParseValue(s)

\* positions of the "{" and "}" lexemes in a text
OpenAt(s) == {i \in 1..Len(s) : s[i].t = "{"}
CloseAt(s) == {i \in 1..Len(s) : s[i].t = "}"}
SetMin(S) == CHOOSE x \in S : \A y \in S : x <= y
SetMax(S) == CHOOSE x \in S : \A y \in S : y <= x

\* re.search(r'\{.*\}', text, re.DOTALL): is there a match
ReSearchMatches(s) == \E i \in OpenAt(s) : \E j \in CloseAt(s) : i < j

\* json_match.group(): greedy, from the first "{" to the last "}"
ReSearchGroup(s) == SubSeq(s, SetMin(OpenAt(s)), SetMax(CloseAt(s)))

(***************************************************************************)
(* The document store: products and orders, keyed by store-assigned ids.   *)
(* A store is [products, orders, productIds, orderIds]; productIds and     *)
(* orderIds count the ids assigned so far.  `up` says whether the remote   *)
(* call reaches the store; when it does not, the call raises.              *)
(***************************************************************************)
ProductIdNames ==
    [i \in 1..(MaxProducts + MaxSellerProducts + 1) |-> "p" \o ToString(i)]
OrderIdNames == <<"o1", "o2", "o3">>
StoreError == "store unavailable"
\* datetime.utcnow(), an opaque value: the model keeps no clock
UtcNow == "utcnow"

Store == [products |-> products, orders |-> orders,
          productIds |-> productIds, orderIds |-> orderIds]

\* a method's outcome: the store after it, what it returns or raises, and
\* the remote store calls it made
Returned(st, ret, calls) == [st |-> st, ret |-> ret, calls |-> calls, raised |-> FALSE]
Raised(st, msg, calls) == [st |-> st, calls |-> calls, raised |-> TRUE, msg |-> msg]

\* doc.to_dict() with product_data['id'] = doc.id
WithId(doc, id) == Merge(doc, [id |-> id])

\* keys of a mapping restricted to those at which the predicate set holds
Restrict(d, keys) == [k \in (DOMAIN d) \cap keys |-> d[k]]

\* FirebaseClient.create_product
FbCreateProduct(st, product_data, up) ==
    IF ~up THEN Raised(st, StoreError, <<"products.add">>)
    ELSE LET id == ProductIdNames[st.productIds + 1]
             doc == Merge(product_data, [createdAt |-> UtcNow, updatedAt |-> UtcNow])
         IN  Returned([st EXCEPT !.products = Merge(@, (id :> doc)),
                                 !.productIds = @ + 1],
                      id, <<"products.add">>)

\* ids of the documents a query streams, in id order, as a sequence
RECURSIVE IdSeq(_, _, _)
IdSeq(names, ids, i) ==
    IF i > Len(names) THEN <<>>
    ELSE IF names[i] \in ids THEN <<names[i]>> \o IdSeq(names, ids, i + 1)
    ELSE IdSeq(names, ids, i + 1)

\* where('userId', '==', user_id)
SellerIds(st, user_id) ==
    {id \in DOMAIN st.products :
        "userId" \in DOMAIN st.products[id] /\ st.products[id].userId = user_id}

\* Page returning the first page whatever the offset
PageIgnoresOffset(seq, limit, offset) ==
    SubSeq(seq, 1, IF limit < Len(seq) THEN limit ELSE Len(seq))

\* query.limit(limit).offset(offset).stream()
Page(seq, limit, offset) ==
    SubSeq(seq, offset + 1, IF offset + limit < Len(seq) THEN offset + limit ELSE Len(seq))

\* FirebaseClient.get_seller_products; limit 0 divides by zero at total_pages
FbGetSellerProducts(st, user_id, page, limit, up) ==
    IF ~up THEN Raised(st, StoreError, <<"products.where.stream">>)
    ELSE IF limit = 0
    THEN Raised(st, "integer division or modulo by zero",
                <<"products.where.stream", "products.where.limit.offset.stream">>)
    ELSE LET offset == (page - 1) * limit
             all == IdSeq(ProductIdNames, SellerIds(st, user_id), 1)
             total_products == Len(all)
             ids == Page(all, limit, offset)
             total_pages == (total_products + limit - 1) \div limit
         IN  Returned(st,
                 [products |-> [i \in 1..Len(ids) |-> WithId(st.products[ids[i]], ids[i])],
                  limit |-> limit, total_pages |-> total_pages,
                  count |-> Len(ids), total_count |-> total_products, current_page |-> page],
                 <<"products.where.stream", "products.where.limit.offset.stream">>)

\* FirebaseClient.get_product_by_id: found is FALSE for None
FbGetProductById(st, product_id, up) ==
    IF ~up THEN Returned(st, [found |-> FALSE], <<"products.document.get">>)
    ELSE IF product_id \in DOMAIN st.products
         THEN Returned(st, [doc |-> WithId(st.products[product_id], product_id), found |-> TRUE],
                       <<"products.document.get">>)
    ELSE Returned(st, [found |-> FALSE], <<"products.document.get">>)

\* FirebaseClient.update_product: document.update raises for a missing document
FbUpdateProduct(st, product_id, update_data, up) ==
    IF ~up \/ product_id \notin DOMAIN st.products
    THEN Returned(st, FALSE, <<"products.document.update">>)
    ELSE Returned([st EXCEPT !.products[product_id] =
                                Merge(@, Merge(update_data, [updatedAt |-> UtcNow]))],
                  TRUE, <<"products.document.update">>)

\* FirebaseClient.delete_product: document.delete succeeds for a missing document
FbDeleteProduct(st, product_id, up) ==
    IF ~up THEN Returned(st, FALSE, <<"products.document.delete">>)
    ELSE Returned([st EXCEPT !.products = Restrict(@, (DOMAIN @) \ {product_id})],
                  TRUE, <<"products.document.delete">>)

\* search_term.lower() in field.lower(), on the strings of the model
Contains(field, term) == term = "" \/ term = field

\* FirebaseClient.search_products
FbSearchProducts(st, user_id, search_term, category, up) ==
    IF ~up THEN Raised(st, StoreError, <<"products.where.stream">>)
    ELSE LET matches(d) ==
                 /\ \/ Contains(Get(d, "name", ""), search_term)
                    \/ Contains(Get(d, "description", ""), search_term)
                    \/ Contains(Get(d, "sku", ""), search_term)
                 /\ category = "" \/ Get(d, "category", "") = category
             hit == {id \in SellerIds(st, user_id) : matches(st.products[id])}
             ids == IdSeq(ProductIdNames, hit, 1)
         IN  Returned(st, [i \in 1..Len(ids) |-> WithId(st.products[ids[i]], ids[i])],
                      <<"products.where.stream">>)

\* a store that keeps the larger of the stored and the written quantity
FbUpdateProductQuantityMax(st, product_id, new_quantity, up) ==
    IF ~up \/ product_id \notin DOMAIN st.products
    THEN Returned(st, FALSE, <<"products.document.update">>)
    ELSE Returned([st EXCEPT !.products[product_id] =
                                Merge(@, [updatedAt |-> UtcNow,
                                          quantity |-> IF @.quantity > new_quantity
                                                       THEN @.quantity ELSE new_quantity])],
                  TRUE, <<"products.document.update">>)

\* FirebaseClient.update_product_quantity
FbUpdateProductQuantity(st, product_id, new_quantity, up) ==
    IF ~up \/ product_id \notin DOMAIN st.products
    THEN Returned(st, FALSE, <<"products.document.update">>)
    ELSE Returned([st EXCEPT !.products[product_id] =
                                Merge(@, [updatedAt |-> UtcNow, quantity |-> new_quantity])],
                  TRUE, <<"products.document.update">>)

\* create_order storing the order as already confirmed
FbCreateOrderConfirmed(st, user_id, order_data, up) ==
    IF ~up THEN Raised(st, StoreError, <<"orders.add">>)
    ELSE LET id == OrderIdNames[st.orderIds + 1]
             order_doc == [user_id |-> user_id,
                           chat_message |-> Get(order_data, "chat_message", ""),
                           order_details |-> Get(order_data, "order_details", EmptyMap),
                           status |-> "confirmed",
                           created_at |-> UtcNow, updated_at |-> UtcNow]
         IN  Returned([st EXCEPT !.orders = Merge(@, (id :> order_doc)),
                                 !.orderIds = @ + 1],
                      id, <<"orders.add">>)

\* FirebaseClient.create_order
FbCreateOrder(st, user_id, order_data, up) ==
    IF ~up THEN Raised(st, StoreError, <<"orders.add">>)
    ELSE LET id == OrderIdNames[st.orderIds + 1]
             order_doc == [user_id |-> user_id,
                           chat_message |-> Get(order_data, "chat_message", ""),
                           order_details |-> Get(order_data, "order_details", EmptyMap),
                           status |-> "pending",
                           created_at |-> UtcNow, updated_at |-> UtcNow]
         IN  Returned([st EXCEPT !.orders = Merge(@, (id :> order_doc)),
                                 !.orderIds = @ + 1],
                      id, <<"orders.add">>)

\* newest first: order_by('created_at', DESCENDING) is the reverse of id order
Reverse(seq) == [i \in 1..Len(seq) |-> seq[Len(seq) + 1 - i]]

\* FirebaseClient.get_user_orders
FbGetUserOrders(st, user_id, up) ==
    IF ~up THEN Raised(st, StoreError, <<"orders.where.order_by.stream">>)
    ELSE LET hit == {id \in DOMAIN st.orders : st.orders[id].user_id = user_id}
             ids == Reverse(IdSeq(OrderIdNames, hit, 1))
         IN  Returned(st, [i \in 1..Len(ids) |-> WithId(st.orders[ids[i]], ids[i])],
                      <<"orders.where.order_by.stream">>)

\* FbUpdateOrderStatus writing the document anew, with set() for update()
FbUpdateOrderStatusSet(st, order_id, status, up) ==
    IF ~up \/ order_id \notin DOMAIN st.orders
    THEN Returned(st, FALSE, <<"orders.document.update">>)
    ELSE Returned([st EXCEPT !.orders[order_id] = [status |-> status, updated_at |-> UtcNow]],
                  TRUE, <<"orders.document.update">>)

\* FirebaseClient.update_order_status
FbUpdateOrderStatus(st, order_id, status, up) ==
    IF ~up \/ order_id \notin DOMAIN st.orders
    THEN Returned(st, FALSE, <<"orders.document.update">>)
    ELSE Returned([st EXCEPT !.orders[order_id] =
                                Merge(@, [status |-> status, updated_at |-> UtcNow])],
                  TRUE, <<"orders.document.update">>)

\* FirebaseClient.get_order_by_id: found is FALSE for None
FbGetOrderById(st, order_id, up) ==
    IF ~up THEN Returned(st, [found |-> FALSE], <<"orders.document.get">>)
    ELSE IF order_id \in DOMAIN st.orders
         THEN Returned(st, [doc |-> WithId(st.orders[order_id], order_id), found |-> TRUE],
                       <<"orders.document.get">>)
    ELSE Returned(st, [found |-> FALSE], <<"orders.document.get">>)

(***************************************************************************)
(* The function registry of GeminiAgent and its callables.                 *)
(***************************************************************************)
\* self.available_functions: the keys, in the order of the dict literal
available_functions ==
    <<"get_seller_products", "get_product_details", "create_product",
      "update_product", "delete_product", "search_products",
      "update_product_quantity", "get_user_orders", "get_order_details",
      "place_order", "update_order_status">>

\* function_descriptions with the descriptor of update_order_status forgotten
DescriptionsMissingOne ==
    <<"get_seller_products", "get_product_details", "create_product",
      "update_product", "delete_product", "search_products",
      "update_product_quantity", "get_user_orders", "get_order_details",
      "place_order">>

\* function_descriptions with the descriptor of update_order_status named
\* place_order a second time
DescriptionsRepeatOne ==
    <<"get_seller_products", "get_product_details", "create_product",
      "update_product", "delete_product", "search_products",
      "update_product_quantity", "get_user_orders", "get_order_details",
      "place_order", "place_order">>

\* self.function_descriptions: the "name" of each descriptor, in list order
function_descriptions ==
    <<"get_seller_products", "get_product_details", "create_product",
      "update_product", "delete_product", "search_products",
      "update_product_quantity", "get_user_orders", "get_order_details",
      "place_order", "update_order_status">>

Range(seq) == {seq[i] : i \in 1..Len(seq)}

\* the positional-or-keyword parameters without a default of each callable
RequiredArgs(fn) ==
    CASE fn = "get_seller_products" -> {"user_id"}
      [] fn = "get_product_details" -> {"product_id"}
      [] fn = "create_product" -> {}
      [] fn = "update_product" -> {"product_id"}
      [] fn = "delete_product" -> {"product_id"}
      [] fn = "search_products" -> {"user_id", "search_term"}
      [] fn = "update_product_quantity" -> {"product_id", "quantity"}
      [] fn = "get_user_orders" -> {"user_id"}
      [] fn = "get_order_details" -> {"order_id"}
      [] fn = "place_order" -> {"user_id", "chat_message"}
      [] fn = "update_order_status" -> {"order_id", "status"}

\* the parameters with a default of each callable
OptionalArgs(fn) ==
    CASE fn = "get_seller_products" -> {"page", "limit"}
      [] fn = "search_products" -> {"category"}
      [] fn = "place_order" -> {"order_details", "use_ai_processing"}
      [] OTHER -> {}

\* the callables that take **kwargs
TakesKwargs(fn) == fn \in {"create_product", "update_product"}

\* f(**parameters) binds: no required argument missing, no unexpected keyword
Binds(fn, m) ==
    /\ RequiredArgs(fn) \subseteq DOMAIN m
    /\ TakesKwargs(fn) \/ (DOMAIN m) \subseteq (RequiredArgs(fn) \cup OptionalArgs(fn))

\* an f-string, as the sequence of its pieces
Fmt(pieces) == pieces

\* what a callable hands back: its result dict, the store, the store calls
Result(r, ret) == [st |-> r.st, ret |-> ret, calls |-> r.calls]
\* {"success": False, "error": ...}: the message as the pieces of its f-string
Failure(pieces) == [success |-> FALSE, error |-> pieces]

\* GeminiAgent._get_seller_products
AgentGetSellerProducts(st, m, up) ==
    LET r == FbGetSellerProducts(st, m.user_id, Get(m, "page", 1), Get(m, "limit", 10), up)
    IN  IF r.raised THEN Result(r, Failure(<<r.msg>>))
        ELSE Result(r, [success |-> TRUE, data |-> r.ret,
                        message |-> Fmt(<<"Retrieved ", ToString(r.ret.count),
                                          " products for seller">>)])

\* GeminiAgent._get_product_details
AgentGetProductDetails(st, m, up) ==
    LET r == FbGetProductById(st, m.product_id, up)
    IN  IF r.ret.found
        THEN Result(r, [success |-> TRUE, data |-> r.ret.doc,
                        message |-> Fmt(<<"Retrieved details for product ", m.product_id>>)])
        ELSE Result(r, Failure(<<"Product not found">>))

\* required_fields of GeminiAgent._create_product, in list order
required_fields ==
    <<"category", "companyName", "description", "imageUrl", "name", "price",
      "quantity", "sku", "userId">>

\* FirstMissing reporting the last required field that kwargs lacks
FirstMissingLast(kwargs) ==
    LET missing == {i \in 1..Len(required_fields) : required_fields[i] \notin DOMAIN kwargs}
    IN  IF missing = {} THEN <<>> ELSE <<required_fields[SetMax(missing)]>>

\* the first required field that kwargs lacks, as a sequence of at most one
FirstMissing(kwargs) ==
    LET missing == {i \in 1..Len(required_fields) : required_fields[i] \notin DOMAIN kwargs}
    IN  IF missing = {} THEN <<>> ELSE <<required_fields[SetMin(missing)]>>

\* GeminiAgent._create_product
AgentCreateProduct(st, kwargs, up) ==
    IF FirstMissing(kwargs) # <<>>
    THEN [st |-> st, ret |-> Failure(Fmt(<<"Missing required field: ", FirstMissing(kwargs)[1]>>)),
          calls |-> <<>>]
    ELSE LET data == IF "userType" \in DOMAIN kwargs THEN kwargs
                     ELSE Merge(kwargs, [userType |-> "seller"])
             r == FbCreateProduct(st, data, up)
         IN  IF r.raised THEN Result(r, Failure(<<r.msg>>))
             ELSE Result(r, [success |-> TRUE, data |-> [product_id |-> r.ret],
                             message |-> Fmt(<<"Product '", kwargs.name,
                                               "' created successfully">>)])

\* GeminiAgent._update_product
AgentUpdateProduct(st, m, up) ==
    LET update_data == Restrict(m, (DOMAIN m) \ {"product_id"})
    IN  IF DOMAIN update_data = {}
        THEN [st |-> st, ret |-> Failure(<<"No valid update data provided">>), calls |-> <<>>]
        ELSE LET r == FbUpdateProduct(st, m.product_id, update_data, up)
             IN  IF r.ret
                 THEN Result(r, [success |-> TRUE, data |-> [product_id |-> m.product_id],
                                 message |-> Fmt(<<"Product ", m.product_id,
                                                   " updated successfully">>)])
                 ELSE Result(r, Failure(<<"Failed to update product">>))

\* _delete_product calling the store a second time when the first call failed
AgentDeleteProductAgain(st, m, up) ==
    LET r == FbDeleteProduct(st, m.product_id, up)
        again == FbDeleteProduct(r.st, m.product_id, up)
    IN  IF r.ret
        THEN Result(r, [success |-> TRUE, data |-> [product_id |-> m.product_id],
                        message |-> Fmt(<<"Product ", m.product_id, " deleted successfully">>)])
        ELSE [st |-> again.st, ret |-> Failure(<<"Failed to delete product">>),
              calls |-> r.calls \o again.calls]

\* GeminiAgent._delete_product
AgentDeleteProduct(st, m, up) ==
    LET r == FbDeleteProduct(st, m.product_id, up)
    IN  IF r.ret
        THEN Result(r, [success |-> TRUE, data |-> [product_id |-> m.product_id],
                        message |-> Fmt(<<"Product ", m.product_id, " deleted successfully">>)])
        ELSE Result(r, Failure(<<"Failed to delete product">>))

\* GeminiAgent._search_products
AgentSearchProducts(st, m, up) ==
    LET r == FbSearchProducts(st, m.user_id, m.search_term, Get(m, "category", ""), up)
    IN  IF r.raised THEN Result(r, Failure(<<r.msg>>))
        ELSE Result(r, [success |-> TRUE,
                        data |-> [products |-> r.ret, count |-> Len(r.ret)],
                        message |-> Fmt(<<"Found ", ToString(Len(r.ret)),
                                          " products matching '", m.search_term, "'">>)])

\* GeminiAgent._update_product_quantity
AgentUpdateProductQuantity(st, m, up) ==
    LET r == FbUpdateProductQuantity(st, m.product_id, m.quantity, up)
    IN  IF r.ret
        THEN Result(r, [success |-> TRUE,
                        data |-> [product_id |-> m.product_id, quantity |-> m.quantity],
                        message |-> Fmt(<<"Product quantity updated to ",
                                          ToString(m.quantity)>>)])
        ELSE Result(r, Failure(<<"Failed to update quantity">>))

\* GeminiAgent._get_user_orders
AgentGetUserOrders(st, m, up) ==
    LET r == FbGetUserOrders(st, m.user_id, up)
    IN  IF r.raised THEN Result(r, Failure(<<r.msg>>))
        ELSE Result(r, [success |-> TRUE,
                        data |-> [orders |-> r.ret, count |-> Len(r.ret)],
                        message |-> Fmt(<<"Retrieved ", ToString(Len(r.ret)),
                                          " orders for user">>)])

\* GeminiAgent._get_order_details
AgentGetOrderDetails(st, m, up) ==
    LET r == FbGetOrderById(st, m.order_id, up)
    IN  IF r.ret.found
        THEN Result(r, [success |-> TRUE, data |-> r.ret.doc,
                        message |-> Fmt(<<"Retrieved details for order ", m.order_id>>)])
        ELSE Result(r, Failure(<<"Order not found">>))

\* GeminiAgent._place_order
AgentPlaceOrder(st, m, up) ==
    LET r == FbCreateOrder(st, m.user_id,
                 [chat_message |-> m.chat_message,
                  order_details |-> Get(m, "order_details", EmptyMap)], up)
    IN  IF r.raised THEN Result(r, Failure(<<r.msg>>))
        ELSE Result(r, [success |-> TRUE, data |-> [order_id |-> r.ret],
                        message |-> Fmt(<<"Order placed successfully with ID: ", r.ret>>)])

\* GeminiAgent._update_order_status
AgentUpdateOrderStatus(st, m, up) ==
    LET r == FbUpdateOrderStatus(st, m.order_id, m.status, up)
    IN  IF r.ret
        THEN Result(r, [success |-> TRUE,
                        data |-> [status |-> m.status, order_id |-> m.order_id],
                        message |-> Fmt(<<"Order status updated to ", m.status>>)])
        ELSE Result(r, Failure(<<"Failed to update order status">>))

\* self.available_functions[function_name](**parameters), once bound
Invoke(fn, st, m, up) ==
    CASE fn = "get_seller_products" -> AgentGetSellerProducts(st, m, up)
      [] fn = "get_product_details" -> AgentGetProductDetails(st, m, up)
      [] fn = "create_product" -> AgentCreateProduct(st, m, up)
      [] fn = "update_product" -> AgentUpdateProduct(st, m, up)
      [] fn = "delete_product" -> AgentDeleteProduct(st, m, up)
      [] fn = "search_products" -> AgentSearchProducts(st, m, up)
      [] fn = "update_product_quantity" -> AgentUpdateProductQuantity(st, m, up)
      [] fn = "get_user_orders" -> AgentGetUserOrders(st, m, up)
      [] fn = "get_order_details" -> AgentGetOrderDetails(st, m, up)
      [] fn = "place_order" -> AgentPlaceOrder(st, m, up)
      [] fn = "update_order_status" -> AgentUpdateOrderStatus(st, m, up)

(***************************************************************************)
(* GeminiAgent.process_natural_language_query.                             *)
(***************************************************************************)
\* generate_content returning a text, or raising
GenText(text) == [raised |-> FALSE, text |-> text]
GenRaise(msg) == [raised |-> TRUE, msg |-> msg]

\* bool(v) of a parsed JSON value
Truthy(v) ==
    CASE v.j = "null" -> FALSE
      [] v.j = "str" -> v.s # ""
      [] v.j = "num" -> v.n # 0
      [] v.j = "list" -> TRUE
      [] v.j = "obj" -> DOMAIN v.m # {}

\* hash(v) raises TypeError for lists and dicts
Unhashable(v) == v.j \in {"list", "obj"}

\* function_name in self.available_functions, for a hashable value
Registered(v) == v.j = "str" /\ v.s \in Range(available_functions)

\* the user prompt of the dispatcher: the query and the serialized descriptors
UserPrompt(query) == [query |-> query, functions |-> function_descriptions]

\* GeminiAgent._create_system_prompt: the preamble, then one line for each context pair
CreateSystemPrompt(context) == [preamble |-> "You are an AI assistant for WKC", lines |-> context]

\* Caught with str(e) left out of the error
CaughtLosesMessage(st, where, msg, prompt) ==
    [st |-> st,
     calls |-> <<>>,
     prompt |-> prompt,
     env |-> [success |-> FALSE, error |-> Fmt(<<"Failed to process query: ">>)],
     genCalls |-> 1,
     invoked |-> <<>>,
     exc |-> <<[msg |-> msg, where |-> where]>>]

\* the result of the except clause at the end of the method
Caught(st, where, msg, prompt) ==
    [st |-> st,
     calls |-> <<>>,
     prompt |-> prompt,
     env |-> [success |-> FALSE, error |-> Fmt(<<"Failed to process query: ", msg>>)],
     genCalls |-> 1,
     invoked |-> <<>>,
     exc |-> <<[msg |-> msg, where |-> where]>>]

\* a return without a call of a callable
Answered(st, env, prompt) ==
    [st |-> st, calls |-> <<>>, prompt |-> prompt, env |-> env, genCalls |-> 1,
     invoked |-> <<>>, exc |-> <<>>]

\* the parsing of response.text: the direct parse, else the brace scan
ParseResponse(text) ==
    LET direct == JsonLoads(text)
        extracted == JsonLoads(ReSearchGroup(text))
    IN  IF direct.j # "fail" THEN [how |-> "direct", result |-> direct]
        ELSE IF ReSearchMatches(text)
             THEN IF extracted.j # "fail" THEN [how |-> "extracted", result |-> extracted]
                  ELSE [how |-> "decode_error"]
        ELSE [how |-> "no_match"]

\* the return for a text without a brace-delimited region
ParseFailEnvelope(text) ==
    [success |-> FALSE, error |-> <<"Failed to parse AI response">>, raw_response |-> text]

\* CallKwargs of a call that forgets **parameters
CallKwargsForgotten(parameters) == EmptyMap
\* the keyword arguments of self.available_functions[function_name](**parameters)
CallKwargs(parameters) == parameters.m

\* SuccessEnvelope taking its success flag from the callable's result
SuccessEnvelopeCopiesFlag(function_name, parameters, result, function_result) ==
    [success |-> function_result.success,
     result |-> function_result,
     function_called |-> function_name,
     explanation |-> Get(result.m, "explanation", JStr("")),
     parameters |-> parameters]

\* the return after the callable has returned
SuccessEnvelope(function_name, parameters, result, function_result) ==
    [success |-> TRUE,
     result |-> function_result,
     function_called |-> function_name,
     explanation |-> Get(result.m, "explanation", JStr("")),
     parameters |-> parameters]

\* the return when no registered function is named
NoMatchEnvelope(result) ==
    [available_functions |-> function_descriptions,
     success |-> FALSE,
     function_called |-> JNull,
     explanation |-> Get(result.m, "explanation", JStr("No matching function found"))]

\* Called for callables that let a failure of their store call escape: the
\* except clause of the method answers after the store call was made
CalledReraises(function_name, parameters, result, prompt, c) ==
    IF c.ret.success
    THEN [st |-> c.st,
          calls |-> c.calls,
          prompt |-> prompt,
          env |-> SuccessEnvelope(function_name, parameters, result, c.ret),
          genCalls |-> 1,
          invoked |-> <<[name |-> function_name.s, kwargs |-> CallKwargs(parameters),
                         returned |-> c.ret]>>, exc |-> <<>>]
    ELSE [st |-> c.st,
          calls |-> c.calls,
          prompt |-> prompt,
          env |-> [success |-> FALSE, error |-> Fmt(<<"Failed to process query: ", c.ret.error>>)],
          genCalls |-> 1,
          invoked |-> <<>>, exc |-> <<[msg |-> c.ret.error, where |-> "call"]>>]

\* the call of the callable has returned c: the return of the method
Called(function_name, parameters, result, prompt, c) ==
    [st |-> c.st,
     calls |-> c.calls,
     prompt |-> prompt,
     env |-> SuccessEnvelope(function_name, parameters, result, c.ret),
     genCalls |-> 1,
     invoked |-> <<[name |-> function_name.s, kwargs |-> CallKwargs(parameters),
                    returned |-> c.ret]>>, exc |-> <<>>]

\* the steps after the response text has been parsed into `result`
Execute(st, result, prompt, up) ==
    IF result.j # "obj"
    THEN Caught(st, "get", "object has no attribute 'get'", prompt)
    ELSE LET function_name == Get(result.m, "function_name", JNull)
             parameters == Get(result.m, "parameters", JObj(EmptyMap))
         IN  IF Truthy(function_name) /\ Unhashable(function_name)
             THEN Caught(st, "lookup", "unhashable type", prompt)
             ELSE IF Truthy(function_name) /\ Registered(function_name)
             THEN IF parameters.j # "obj"
                  THEN Caught(st, "call", "argument after ** must be a mapping", prompt)
                  ELSE IF ~Binds(function_name.s, CallKwargs(parameters))
                  THEN Caught(st, "call", "missing or unexpected keyword argument", prompt)
                  ELSE Called(function_name, parameters, result, prompt,
                              Invoke(function_name.s, st, CallKwargs(parameters), up))
             ELSE Answered(st, NoMatchEnvelope(result), prompt)

\* GeminiAgent.process_natural_language_query
ProcessNaturalLanguageQuery(st, query, context, gen, up) ==
    LET system_prompt == CreateSystemPrompt(context)
        user_prompt == UserPrompt(query)
        parsed == ParseResponse(gen.text)
    IN  IF gen.raised THEN Caught(st, "generate", gen.msg, user_prompt)
        ELSE IF parsed.how = "no_match"
             THEN Answered(st, ParseFailEnvelope(gen.text), user_prompt)
        ELSE IF parsed.how = "decode_error"
             THEN Caught(st, "parse", "JSONDecodeError", user_prompt)
        ELSE Execute(st, parsed.result, user_prompt, up)

(***************************************************************************)
(* GeminiService: the order intake pipeline.                               *)
(***************************************************************************)
\* a Python str built from pieces (an f-string, or a literal of one piece)
Str(pieces) == [pieces |-> pieces, str |-> "pieces"]
\* a Python str that is a slice of a model text
TextStr(text) == [text |-> text, str |-> "text"]

\* the slice bound of ai_response[:200]
AnalysisLimit == 200

\* Slice without the cut: ai_response
SliceWhole(text, n) == text

RECURSIVE Slice(_, _)
\* ai_response[:n]: the lexemes that fit in n characters, the next one cut short
Slice(text, n) ==
    IF text = <<>> \/ n <= 0 THEN <<>>
    ELSE IF Chars(Head(text)) <= n
         THEN <<Head(text)>> \o Slice(Tail(text), n - Chars(Head(text)))
    ELSE <<[t |-> "cut", chars |-> n, of |-> Head(text)]>>

\* [{"name": "order from chat", "quantity": 1}]
PlaceholderItems == <<[quantity |-> 1, name |-> "order from chat"]>>

\* GeminiService._parse_ai_response
ParseAiResponse(ai_response, original_message) ==
    IF ReSearchMatches(ai_response)
    THEN LET parsed_data == JsonLoads(ReSearchGroup(ai_response))
         IN  IF parsed_data.j = "fail"
             THEN [items |-> PlaceholderItems,
                   special_instructions |-> Str(<<"">>),
                   delivery_preference |-> Str(<<"not specified">>),
                   additional_requirements |-> Str(<<"">>),
                   ai_analysis |-> Str(<<"Original message: ", original_message>>)]
             ELSE [items |-> Get(parsed_data.m, "items", <<>>),
                   special_instructions |->
                       Get(parsed_data.m, "special_instructions", Str(<<"">>)),
                   delivery_preference |->
                       Get(parsed_data.m, "delivery_preference", Str(<<"not specified">>)),
                   additional_requirements |->
                       Get(parsed_data.m, "additional_requirements", Str(<<"">>)),
                   ai_analysis |->
                       Get(parsed_data.m, "ai_analysis",
                           TextStr(Slice(ai_response, AnalysisLimit)))]
    ELSE [items |-> PlaceholderItems,
          special_instructions |-> Str(<<"">>),
          delivery_preference |-> Str(<<"not specified">>),
          additional_requirements |-> Str(<<"">>),
          ai_analysis |-> TextStr(Slice(ai_response, AnalysisLimit))]

\* FailedOrderDetails as the fallback of _parse_ai_response, tagged with the message
FailedOrderDetailsPlaceholder(chat_message) ==
    [items |-> PlaceholderItems,
     special_instructions |-> Str(<<"">>),
     delivery_preference |-> Str(<<"not specified">>),
     additional_requirements |-> Str(<<"">>),
     ai_analysis |-> Str(<<chat_message>>)]

\* the order_details of the except clause of process_order_message
FailedOrderDetails(chat_message) ==
    [items |-> <<>>,
     special_instructions |-> Str(<<"">>),
     delivery_preference |-> Str(<<"not specified">>),
     additional_requirements |-> Str(<<"">>),
     ai_analysis |-> Str(<<"Failed to process with AI">>)]

\* process_order_message handing back the result of the call before it, when
\* that call was an extraction too
ProcessOrderMessageCached(chat_message, user_id, gen) ==
    IF last.op = "extractOrder" THEN last.out
    ELSE IF gen.raised
    THEN [order_details |-> FailedOrderDetails(chat_message),
          success |-> FALSE,
          error |-> Fmt(<<"Failed to process order: ", gen.msg>>)]
    ELSE LET order_details == ParseAiResponse(gen.text, chat_message)
         IN  [order_details |-> order_details,
              success |-> TRUE,
              ai_analysis |-> order_details.ai_analysis,
              processed_message |-> chat_message]

\* GeminiService.process_order_message
ProcessOrderMessage(chat_message, user_id, gen) ==
    IF gen.raised
    THEN [order_details |-> FailedOrderDetails(chat_message),
          success |-> FALSE,
          error |-> Fmt(<<"Failed to process order: ", gen.msg>>)]
    ELSE LET order_details == ParseAiResponse(gen.text, chat_message)
         IN  [order_details |-> order_details,
              success |-> TRUE,
              ai_analysis |-> order_details.ai_analysis,
              processed_message |-> chat_message]

\* a Python str that is a model text with the surrounding whitespace removed
StrippedStr(text) == [text |-> text, str |-> "strip"]

\* GeminiService.generate_order_confirmation
GenerateOrderConfirmation(order_details, gen) ==
    IF gen.raised
    THEN Str(<<"Thank you for your order! We've received it and will process it shortly.">>)
    ELSE StrippedStr(gen.text)

\* GeminiService.handle_order_modification
HandleOrderModification(original_order, modification_request, gen) ==
    IF gen.raised
    THEN [success |-> FALSE,
          error |-> Fmt(<<"Failed to process modification: ", gen.msg>>)]
    ELSE [success |-> TRUE,
          updated_order |-> ParseAiResponse(gen.text, modification_request),
          modification_summary |->
              Str(<<"Order modified based on: ", modification_request>>)]

(***************************************************************************)
(* The HTTP handlers of main.py.  A handler's outcome is the response, the *)
(* store after it and the remote calls it made.                            *)
(***************************************************************************)
\* the strings of the model that consist of whitespace only
WhitespaceOnly == {" ", "   "}
\* IsBlank without the strip(): not s
IsEmpty(s) == s = ""
\* not s.strip()
IsBlank(s) == s = "" \/ s \in WhitespaceOnly

\* HttpError answering with the bare detail
HttpErrorBare(status, detail) ==
    [status |-> status, body |-> [detail |-> detail]]

\* raise HTTPException(status_code, detail), answered by http_exception_handler
HttpError(status, detail) ==
    [status |-> status,
     body |-> [success |-> FALSE, error |-> detail,
               details |-> Fmt(<<"HTTP ", ToString(status)>>)]]
\* a request FastAPI rejects before the handler runs
Unprocessable == [status |-> 422, body |-> [detail |-> <<"validation error">>]]
Ok(body) == [status |-> 200, body |-> body]

Outcome(resp, st, genCalls, calls, invoked) ==
    [st |-> st, calls |-> calls, genCalls |-> genCalls, invoked |-> invoked, resp |-> resp]

\* the return of POST /query for the dispatcher's outcome r
QueryResponse(query, r) ==
    IF r.env.success
    THEN Outcome(Ok([success |-> TRUE, query |-> query,
                     result |-> r.env.result,
                     function_called |-> r.env.function_called,
                     explanation |-> r.env.explanation,
                     parameters_used |-> r.env.parameters]),
                 r.st, r.genCalls, r.calls, r.invoked)
    ELSE Outcome(Ok([available_functions |-> Get(r.env, "available_functions", <<>>),
                     success |-> FALSE,
                     error |-> Get(r.env, "error", <<>>),
                     query |-> query,
                     explanation |-> Get(r.env, "explanation", JNull)]),
                 r.st, r.genCalls, r.calls, r.invoked)

\* the context POST /query hands to the dispatcher: request.context or {},
\* with user_id set when the request carries one
QueryContext(request_context, user_id) ==
    IF user_id # "" THEN Merge(request_context, [user_id |-> user_id])
    ELSE request_context

\* POST /query: process_natural_language_query(request)
HandleQuery(st, query, user_id, request_context, gen, up) ==
    IF IsBlank(query)
    THEN Outcome(HttpError(400, <<"Query is required">>), st, 0, <<>>, <<>>)
    ELSE QueryResponse(query,
             ProcessNaturalLanguageQuery(st, query,
                 QueryContext(request_context, user_id), gen, up))

\* ValidateProductCreate with price < 0 for price <= 0
ValidateProductCreateNegativeOnly(product_data) ==
    IF IsBlank(product_data.name) THEN <<"Product name is required">>
    ELSE IF product_data.price < 0 THEN <<"Price must be greater than 0">>
    ELSE IF product_data.quantity < 0 THEN <<"Quantity cannot be negative">>
    ELSE <<>>

\* the validation of POST /products: the detail of the HTTPException it
\* raises, <<>> when the body passes
ValidateProductCreate(product_data) ==
    IF IsBlank(product_data.name) THEN <<"Product name is required">>
    ELSE IF product_data.price <= 0 THEN <<"Price must be greater than 0">>
    ELSE IF product_data.quantity < 0 THEN <<"Quantity cannot be negative">>
    ELSE <<>>

\* HandleCreateProduct validating after the product has been added
HandleCreateProductLate(st, product_data, up) ==
    LET r == FbCreateProduct(st, product_data, up)
    IN  IF r.raised
        THEN Outcome(HttpError(500, Fmt(<<"Failed to create product: ", r.msg>>)),
                     r.st, 0, r.calls, <<>>)
        ELSE IF ValidateProductCreate(product_data) # <<>>
        THEN Outcome(HttpError(400, ValidateProductCreate(product_data)),
                     r.st, 0, r.calls, <<>>)
        ELSE Outcome(Ok([product_id |-> r.ret, success |-> TRUE,
                         data |-> product_data,
                         message |-> <<"Product created successfully">>]),
                     r.st, 0, r.calls, <<>>)

\* POST /products: create_product(product_data)
HandleCreateProduct(st, product_data, up) ==
    IF ValidateProductCreate(product_data) # <<>>
    THEN Outcome(HttpError(400, ValidateProductCreate(product_data)), st, 0, <<>>, <<>>)
    ELSE LET r == FbCreateProduct(st, product_data, up)
         IN  IF r.raised
             THEN Outcome(HttpError(500, Fmt(<<"Failed to create product: ", r.msg>>)),
                          r.st, 0, r.calls, <<>>)
             ELSE Outcome(Ok([product_id |-> r.ret, success |-> TRUE,
                              data |-> product_data,
                              message |-> <<"Product created successfully">>]),
                          r.st, 0, r.calls, <<>>)

\* PUT /products/{product_id}: update_product(product_id, update_data)
HandleUpdateProduct(st, product_id, update_dict, up, upRead) ==
    IF IsBlank(product_id)
    THEN Outcome(HttpError(400, <<"Product ID is required">>), st, 0, <<>>, <<>>)
    ELSE IF DOMAIN update_dict = {}
    THEN Outcome(HttpError(400, <<"No valid update data provided">>), st, 0, <<>>, <<>>)
    ELSE IF "price" \in DOMAIN update_dict /\ update_dict.price <= 0
    THEN Outcome(HttpError(400, <<"Price must be greater than 0">>), st, 0, <<>>, <<>>)
    ELSE IF "quantity" \in DOMAIN update_dict /\ update_dict.quantity < 0
    THEN Outcome(HttpError(400, <<"Quantity cannot be negative">>), st, 0, <<>>, <<>>)
    ELSE LET r == FbUpdateProduct(st, product_id, update_dict, up)
         IN  IF ~r.ret
             THEN Outcome(HttpError(500, <<"Failed to update product">>),
                          r.st, 0, r.calls, <<>>)
             ELSE LET g == FbGetProductById(r.st, product_id, upRead)
                  IN  Outcome(Ok([product_id |-> product_id, success |-> TRUE,
                                  data |-> g.ret,
                                  message |-> <<"Product updated successfully">>]),
                              g.st, 0, r.calls \o g.calls, <<>>)

\* DELETE /products/{product_id}: delete_product(product_id)
HandleDeleteProduct(st, product_id, up) ==
    IF IsBlank(product_id)
    THEN Outcome(HttpError(400, <<"Product ID is required">>), st, 0, <<>>, <<>>)
    ELSE LET r == FbDeleteProduct(st, product_id, up)
         IN  IF ~r.ret
             THEN Outcome(HttpError(500, <<"Failed to delete product">>),
                          r.st, 0, r.calls, <<>>)
             ELSE Outcome(Ok([success |-> TRUE,
                              message |-> Fmt(<<"Product ", product_id,
                                                " deleted successfully">>)]),
                          r.st, 0, r.calls, <<>>)

\* PUT /products/{product_id}/quantity: update_product_quantity(product_id, quantity)
HandleUpdateProductQuantity(st, product_id, quantity, up) ==
    IF quantity < 0 THEN Outcome(Unprocessable, st, 0, <<>>, <<>>)
    ELSE IF IsBlank(product_id)
    THEN Outcome(HttpError(400, <<"Product ID is required">>), st, 0, <<>>, <<>>)
    ELSE LET r == FbUpdateProductQuantity(st, product_id, quantity, up)
         IN  IF ~r.ret
             THEN Outcome(HttpError(500, <<"Failed to update product quantity">>),
                          r.st, 0, r.calls, <<>>)
             ELSE Outcome(Ok([product_id |-> product_id,
                              quantity |-> quantity,
                              success |-> TRUE, message |-> Fmt(<<"Product quantity updated to ",
                                                ToString(quantity)>>)]),
                          r.st, 0, r.calls, <<>>)

\* GET /: root()
HandleRoot(st) ==
    Outcome(Ok([status |-> "healthy",
                message |-> <<"WKC MCP Server with Gemini AI is running">>, version |-> "2.0.0"]),
            st, 0, <<>>, <<>>)

\* the bounds FastAPI enforces on the limit query parameter: Query(10, ge=1, le=100)
MaxLimit == 100

\* GET /products/seller/{user_id}: get_seller_products(user_id, page, limit)
HandleGetSellerProducts(st, user_id, page, limit, up) ==
    IF page < 1 \/ limit < 1 \/ limit > MaxLimit THEN Outcome(Unprocessable, st, 0, <<>>, <<>>)
    ELSE IF IsBlank(user_id)
    THEN Outcome(HttpError(400, <<"User ID is required">>), st, 0, <<>>, <<>>)
    ELSE LET r == FbGetSellerProducts(st, user_id, page, limit, up)
         IN  IF r.raised
             THEN Outcome(HttpError(500, Fmt(<<"Failed to fetch seller products: ", r.msg>>)),
                          r.st, 0, r.calls, <<>>)
             ELSE Outcome(Ok([products |-> r.ret.products, total_pages |-> r.ret.total_pages,
                              count |-> r.ret.count, current_page |-> r.ret.current_page,
                              success |-> TRUE]),
                          r.st, 0, r.calls, <<>>)

\* GET /products/{product_id}: get_product(product_id)
HandleGetProduct(st, product_id, up) ==
    IF IsBlank(product_id)
    THEN Outcome(HttpError(400, <<"Product ID is required">>), st, 0, <<>>, <<>>)
    ELSE LET r == FbGetProductById(st, product_id, up)
         IN  IF ~r.ret.found
             THEN Outcome(HttpError(404, <<"Product not found">>), r.st, 0, r.calls, <<>>)
             ELSE Outcome(Ok([success |-> TRUE, message |-> <<"Product retrieved successfully">>,
                              product |-> r.ret.doc]),
                          r.st, 0, r.calls, <<>>)

\* GET /products/seller/{user_id}/search: search_seller_products(user_id, search_term, category)
HandleSearchSellerProducts(st, user_id, search_term, category, up) ==
    IF IsBlank(user_id)
    THEN Outcome(HttpError(400, <<"User ID is required">>), st, 0, <<>>, <<>>)
    ELSE IF IsBlank(search_term)
    THEN Outcome(HttpError(400, <<"Search term is required">>), st, 0, <<>>, <<>>)
    ELSE LET r == FbSearchProducts(st, user_id, search_term, category, up)
         IN  IF r.raised
             THEN Outcome(HttpError(500, Fmt(<<"Failed to search products: ", r.msg>>)),
                          r.st, 0, r.calls, <<>>)
             ELSE Outcome(Ok([products |-> r.ret, count |-> Len(r.ret), search_term |-> search_term,
                              category |-> category, success |-> TRUE]),
                          r.st, 0, r.calls, <<>>)

\* the order is created and answered: the end of place_order
PlaceOrderCreate(st, req, processed_order_details, ai_processed, ai_analysis, confirmation_message, genCalls, up) ==
    LET r == FbCreateOrder(st, req.user_id,
                 [chat_message |-> req.chat_message,
                  order_details |-> processed_order_details], up)
    IN  IF r.raised
        THEN Outcome(HttpError(500, Fmt(<<"Failed to place order: ", r.msg>>)),
                     r.st, genCalls, r.calls, <<>>)
        ELSE Outcome(Ok([order_id |-> r.ret, success |-> TRUE,
                         data |-> [user_id |-> req.user_id,
                                   chat_message |-> req.chat_message,
                                   order_details |-> processed_order_details],
                         message |-> <<"Order placed successfully">>,
                         ai_analysis |-> ai_analysis,
                         ai_processed |-> ai_processed,
                         confirmation_message |-> confirmation_message]),
                     r.st, genCalls, r.calls, <<>>)

\* HandlePlaceOrder giving up the placement when the extraction fails
HandlePlaceOrderStrict(st, req, genExtract, genConfirm, up) ==
    IF IsBlank(req.user_id)
    THEN Outcome(HttpError(400, <<"User ID is required">>), st, 0, <<>>, <<>>)
    ELSE IF IsBlank(req.chat_message)
    THEN Outcome(HttpError(400, <<"Chat message is required">>), st, 0, <<>>, <<>>)
    ELSE IF ~req.use_ai_processing
    THEN PlaceOrderCreate(st, req, req.order_details, FALSE, <<>>, <<>>, 0, up)
    ELSE LET ai_result == ProcessOrderMessage(req.chat_message, req.user_id, genExtract)
         IN  IF ~ai_result.success
             THEN Outcome(HttpError(500, ai_result.error), st, 1, <<>>, <<>>)
             ELSE PlaceOrderCreate(st, req,
                      Merge(req.order_details, ai_result.order_details), TRUE,
                      <<ai_result.ai_analysis>>,
                      <<GenerateOrderConfirmation(
                            Merge(req.order_details, ai_result.order_details),
                            genConfirm)>>,
                      2, up)

\* POST /place_order: place_order(order_request); the client answers genExtract
\* to the extraction and genConfirm to the confirmation; None is <<>>
HandlePlaceOrder(st, req, genExtract, genConfirm, up) ==
    IF IsBlank(req.user_id)
    THEN Outcome(HttpError(400, <<"User ID is required">>), st, 0, <<>>, <<>>)
    ELSE IF IsBlank(req.chat_message)
    THEN Outcome(HttpError(400, <<"Chat message is required">>), st, 0, <<>>, <<>>)
    ELSE IF ~req.use_ai_processing
    THEN PlaceOrderCreate(st, req, req.order_details, FALSE, <<>>, <<>>, 0, up)
    ELSE LET ai_result == ProcessOrderMessage(req.chat_message, req.user_id, genExtract)
         IN  IF ~ai_result.success
             THEN PlaceOrderCreate(st, req, req.order_details, FALSE, <<>>, <<>>, 1, up)
             ELSE PlaceOrderCreate(st, req,
                      Merge(req.order_details, ai_result.order_details), TRUE,
                      <<ai_result.ai_analysis>>,
                      <<GenerateOrderConfirmation(
                            Merge(req.order_details, ai_result.order_details),
                            genConfirm)>>,
                      2, up)

\* AIProcessedOrder(**order_details) validates: every item has a name
ValidOrderDetails(order_details) ==
    \A i \in 1..Len(order_details.items) : "name" \in DOMAIN order_details.items[i]

\* POST /process_chat: process_chat_message(chat_request)
HandleProcessChat(st, user_id, message, gen) ==
    IF IsBlank(user_id)
    THEN Outcome(HttpError(400, <<"User ID is required">>), st, 0, <<>>, <<>>)
    ELSE IF IsBlank(message)
    THEN Outcome(HttpError(400, <<"Message is required">>), st, 0, <<>>, <<>>)
    ELSE LET ai_result == ProcessOrderMessage(message, user_id, gen)
         IN  IF ~ai_result.success
             THEN Outcome(HttpError(500, ai_result.error), st, 1, <<>>, <<>>)
             ELSE IF ~ValidOrderDetails(ai_result.order_details)
             THEN Outcome(HttpError(500, Fmt(<<"Failed to process chat message: ",
                                               "validation error for AIProcessedOrder">>)),
                          st, 1, <<>>, <<>>)
             ELSE Outcome(Ok([order_details |-> ai_result.order_details, success |-> TRUE,
                              processed_message |-> message,
                              ai_response |-> ai_result.ai_analysis,
                              intent |-> IF ai_result.order_details.items # <<>>
                                         THEN "order" ELSE "conversation"]),
                          st, 1, <<>>, <<>>)

\* PUT /order/{order_id}/modify: modify_order(order_id, modification_request)
HandleModifyOrder(st, order_id, modification_message, gen, upRead, up) ==
    IF IsBlank(order_id)
    THEN Outcome(HttpError(400, <<"Order ID is required">>), st, 0, <<>>, <<>>)
    ELSE LET g == FbGetOrderById(st, order_id, upRead)
         IN  IF ~g.ret.found
             THEN Outcome(HttpError(404, <<"Order not found">>), g.st, 0, g.calls, <<>>)
             ELSE LET modification_result ==
                          HandleOrderModification(g.ret.doc, modification_message, gen)
                  IN  IF ~modification_result.success
                      THEN Outcome(HttpError(500, modification_result.error),
                                   g.st, 1, g.calls, <<>>)
                      ELSE LET r == FbUpdateOrderStatus(g.st, order_id, "modified", up)
                           IN  IF ~r.ret
                               THEN Outcome(HttpError(500, <<"Failed to update order">>),
                                            r.st, 1, g.calls \o r.calls, <<>>)
                               ELSE Outcome(Ok([order_id |-> order_id, success |-> TRUE,
                                                message |-> <<"Order modified successfully">>,
                                                original_order |-> g.ret.doc,
                                                updated_order |-> modification_result.updated_order,
                                                modification_summary |->
                                                    modification_result.modification_summary]),
                                            r.st, 1, g.calls \o r.calls, <<>>)

\* datetime.isoformat() of a stored timestamp
IsoFormat(t) == "iso:" \o t

\* the order with created_at and updated_at converted for serialization
Serializable(order) ==
    Merge(order,
          [k \in (DOMAIN order) \cap {"created_at", "updated_at"} |-> IsoFormat(order[k])])

\* GET /user/{user_id}/orders: get_user_orders(user_id)
HandleGetUserOrders(st, user_id, up) ==
    IF IsBlank(user_id)
    THEN Outcome(HttpError(400, <<"User ID is required">>), st, 0, <<>>, <<>>)
    ELSE LET r == FbGetUserOrders(st, user_id, up)
         IN  IF r.raised
             THEN Outcome(HttpError(500, Fmt(<<"Failed to fetch user orders: ", r.msg>>)),
                          r.st, 0, r.calls, <<>>)
             ELSE Outcome(Ok([orders |-> [i \in 1..Len(r.ret) |-> Serializable(r.ret[i])],
                              count |-> Len(r.ret),
                              success |-> TRUE]),
                          r.st, 0, r.calls, <<>>)

\* GET /order/{order_id}: get_order(order_id)
HandleGetOrder(st, order_id, up) ==
    IF IsBlank(order_id)
    THEN Outcome(HttpError(400, <<"Order ID is required">>), st, 0, <<>>, <<>>)
    ELSE LET r == FbGetOrderById(st, order_id, up)
         IN  IF ~r.ret.found
             THEN Outcome(HttpError(404, <<"Order not found">>), r.st, 0, r.calls, <<>>)
             ELSE Outcome(Ok([success |-> TRUE, message |-> <<"Order retrieved successfully">>,
                              order |-> Serializable(r.ret.doc)]),
                          r.st, 0, r.calls, <<>>)

\* PUT /order/{order_id}/status: update_order_status(order_id, status_update)
HandleUpdateOrderStatus(st, order_id, status, up) ==
    IF IsBlank(order_id)
    THEN Outcome(HttpError(400, <<"Order ID is required">>), st, 0, <<>>, <<>>)
    ELSE LET r == FbUpdateOrderStatus(st, order_id, status, up)
         IN  IF ~r.ret
             THEN Outcome(HttpError(500, <<"Failed to update order status">>),
                          r.st, 0, r.calls, <<>>)
             ELSE Outcome(Ok([status |-> status,
                              order_id |-> order_id,
                              success |-> TRUE,
                              message |-> Fmt(<<"Order status updated to ", status>>)]),
                          r.st, 0, r.calls, <<>>)

(***************************************************************************)
(* The inputs of the model: requests, and what the text-generation client  *)
(* answers.                                                                *)
(***************************************************************************)
\* the nine required fields and no userType, as the model may supply them
ValidProduct ==
    [userId |-> "u1", category |-> "Electronics",
     quantity |-> 15, name |-> "Test Gaming Mouse",
     price |-> 5, companyName |-> "Test Company", description |-> "A test gaming mouse",
     imageUrl |-> "https://example.com/mouse.jpg", sku |-> "TEST-MOUSE-001"]

\* a ProductCreate body: the fields of models.ProductCreate
ProductCreateBody(name, price, quantity) ==
    [category |-> "Electronics", quantity |-> quantity,
     userType |-> "seller", name |-> name,
     price |-> price, companyName |-> "Test Company", description |-> "A test gaming mouse",
     imageUrl |-> "https://example.com/mouse.jpg", sku |-> "TEST-MOUSE-001"]

\* function name and parameter mapping of the answers that name a product operation
ProductCalls ==
    { <<"create_product", ValidProduct>>,
      <<"create_product", [ValidProduct EXCEPT !.price = 0]>>,
      <<"create_product", Restrict(ValidProduct, (DOMAIN ValidProduct) \ {"price"})>>,
      <<"update_product", [product_id |-> "p1", price |-> 0]>>,
      <<"update_product", [product_id |-> "p1"]>>,
      <<"update_product", [price |-> 0]>>,
      <<"delete_product", [product_id |-> "p1"]>>,
      <<"update_product_quantity", [product_id |-> "p1", quantity |-> 25]>>,
      <<"update_product_quantity", [product_id |-> "p1", quantity |-> -1]>>,
      <<"update_product_quantity", [product_id |-> "p1"]>>,
      <<"update_product_quantity", [product_id |-> "p1", quantity |-> 25, unit |-> "box"]>> }

\* the answers that read products, and the order operations
OtherCalls ==
    { <<"get_seller_products", [user_id |-> "u1"]>>,
      <<"get_product_details", [product_id |-> "p1"]>>,
      <<"search_products", [user_id |-> "u1", search_term |-> "Test Gaming Mouse"]>>,
      <<"get_user_orders", [user_id |-> "u1"]>>,
      <<"get_order_details", [order_id |-> "o1"]>>,
      <<"place_order", [user_id |-> "u1", chat_message |-> "two mice please"]>>,
      <<"update_order_status", [status |-> "completed", order_id |-> "o1"]>>,
      <<"update_order_status", [status |-> "shipped", order_id |-> "o1"]>> }

\* the text of a JSON object {"function_name": ..., "parameters": ..., "explanation": ...};
\* each part is a sequence of at most one value, empty when the key is left out
ParamsText(v) ==
    IF v.j # "obj" THEN <<Key("parameters"), Lit(v)>>
    ELSE IF DOMAIN v.m = {} THEN <<Key("parameters"), LB, RB>>
    ELSE <<Key("parameters"), LB, Pairs(v.m), RB>>

ObjectText(fn, params, expl) ==
    <<LB>>
    \o (IF fn = <<>> THEN <<>> ELSE <<Member("function_name", fn[1])>>)
    \o (IF params = <<>> THEN <<>> ELSE ParamsText(params[1]))
    \o (IF expl = <<>> THEN <<>> ELSE <<Member("explanation", expl[1])>>)
    \o <<RB>>

Explanation == JStr("what this function will do")

\* the answer naming a function with a parameter mapping
CallText(call) == ObjectText(<<JStr(call[1])>>, <<JObj(call[2])>>, <<Explanation>>)

\* answers that name no registered function
NoMatchTexts ==
    { ObjectText(<<JNull>>, <<JObj(EmptyMap)>>, <<JStr("No matching function found for this query")>>),
      ObjectText(<<JStr("get_weather")>>, <<JObj(EmptyMap)>>, <<Explanation>>),
      ObjectText(<<JStr("get_weather")>>, <<>>, <<>>),
      ObjectText(<<JStr("")>>, <<>>, <<Explanation>>),
      ObjectText(<<>>, <<>>, <<Explanation>>),
      ObjectText(<<JList>>, <<>>, <<Explanation>>),
      ObjectText(<<JNum(42)>>, <<JObj(EmptyMap)>>, <<Explanation>>) }

\* answers that name a registered function without a parameter mapping
OddParamTexts ==
    { ObjectText(<<JStr("delete_product")>>, <<JNull>>, <<Explanation>>),
      ObjectText(<<JStr("create_product")>>, <<>>, <<>>) }

UpdateQuantityText == CallText(<<"update_product_quantity", [product_id |-> "p1", quantity |-> 25]>>)

\* an answer with prose around it, two objects in one answer, and texts that
\* hold no JSON object
WrappedTexts ==
    { <<Prose>> \o UpdateQuantityText \o <<Prose>>,
      <<Prose>> \o ObjectText(<<JNull>>, <<>>, <<Explanation>>),
      UpdateQuantityText \o <<Prose, LB, RB>>,
      UpdateQuantityText \o <<Prose, RB>> }

MalformedTexts ==
    { <<>>, <<Prose>>, <<Lit(JNum(42))>>, <<Lit(JNull)>>, <<Lit(JList)>>,
      <<LB, Prose, RB>>, <<RB, Prose, LB>>, <<LB, Prose>> }

ProductTexts == {CallText(c) : c \in ProductCalls}

\* the product operations among the answers the dispatcher is given
DispatchCalls ==
    { <<"create_product", ValidProduct>>,
      <<"create_product", Restrict(ValidProduct, (DOMAIN ValidProduct) \ {"price"})>>,
      <<"update_product", [product_id |-> "p1"]>>,
      <<"delete_product", [product_id |-> "p1"]>>,
      <<"update_product_quantity", [product_id |-> "p1", quantity |-> 25]>>,
      <<"update_product_quantity", [product_id |-> "p1"]>>,
      <<"update_product_quantity", [product_id |-> "p1", quantity |-> 25, unit |-> "box"]>> }
    \cup OtherCalls

DispatchTexts ==
    {CallText(c) : c \in DispatchCalls} \cup NoMatchTexts
    \cup OddParamTexts \cup WrappedTexts \cup MalformedTexts

GenErrors == {"429 quota exceeded"}
Gens(texts) == {GenText(t) : t \in texts} \cup {GenRaise(e) : e \in GenErrors}
DispatchGens == Gens(DispatchTexts)
ProductGens == Gens(ProductTexts)

ProductQuery == "Update the quantity of product p1 to 25"
Queries == {"", "   ", ProductQuery}
\* the blank queries, and the answers the client is given to make to them
BlankQueries == {"", "   "}
BlankGens == Gens({UpdateQuantityText, <<Prose>>})
UserIds == {"", "u1"}

(***************************************************************************)
(* The state machine.  `last` is the request served last and its outcome.  *)
(***************************************************************************)
Init ==
    /\ products = EmptyMap
    /\ orders = EmptyMap
    /\ productIds = 0
    /\ orderIds = 0
    /\ last = [op |-> "start"]
    /\ inflight = EmptyMap
    /\ kept = <<>>

\* the store takes the state st, within the ids the model has names for
StoreBecomes(st) ==
    /\ st.productIds <= MaxProducts
    /\ st.orderIds <= MaxOrders
    /\ products' = st.products
    /\ orders' = st.orders
    /\ productIds' = st.productIds
    /\ orderIds' = st.orderIds

\* whether the store answers is drawn only for a request that makes its
\* n-th remote call: a request that does not make it is served once
Answering(up, n, calls) == up \/ Len(calls) >= n

\* gemini_agent.process_natural_language_query(query, context), called
\* directly, with outcome r
DispatchStep(query, context, gen, r) ==
    /\ StoreBecomes(r.st)
    /\ UNCHANGED <<inflight, kept>>
    /\ last' = [calls |-> r.calls, query |-> query, context |-> context, prompt |-> r.prompt,
                env |-> r.env, genCalls |-> r.genCalls, invoked |-> r.invoked,
                exc |-> r.exc, gen |-> gen, op |-> "dispatch"]

Dispatch ==
    \E gen \in DispatchGens, up \in BOOLEAN :
        \E r \in {ProcessNaturalLanguageQuery(Store, ProductQuery, EmptyMap, gen, up)} :
            /\ Answering(up, 1, r.calls)
            /\ DispatchStep(ProductQuery, EmptyMap, gen, r)

\* the same call with a blank query
DispatchBlank ==
    \E query \in BlankQueries, gen \in BlankGens, up \in BOOLEAN :
        \E r \in {ProcessNaturalLanguageQuery(Store, query, EmptyMap, gen, up)} :
            /\ Answering(up, 1, r.calls)
            /\ DispatchStep(query, EmptyMap, gen, r)

\* the dispatcher on the answers that name a product operation
DispatchProduct ==
    \E gen \in ProductGens, up \in BOOLEAN :
        \E r \in {ProcessNaturalLanguageQuery(Store, ProductQuery, EmptyMap, gen, up)} :
            /\ Answering(up, 1, r.calls)
            /\ DispatchStep(ProductQuery, EmptyMap, gen, r)

\* the contexts a request to POST /query carries
RequestContexts == { EmptyMap, [role |-> "seller"] }
\* the answers the client makes to them: a call, a text that is no object, an error
ContextGens == Gens({UpdateQuantityText, <<Prose>>})

\* the dispatcher called as POST /query calls it, with the context of the request
DispatchContext ==
    \E request_context \in RequestContexts, user_id \in {"", "u1"},
       gen \in ContextGens, up \in BOOLEAN :
        \E context \in {QueryContext(request_context, user_id)} :
            \E r \in {ProcessNaturalLanguageQuery(Store, ProductQuery, context, gen, up)} :
                /\ Answering(up, 1, r.calls)
                /\ DispatchStep(ProductQuery, context, gen, r)

\* the parameter mappings of answers that name create_product: complete, with
\* a userType of their own, and lacking one or several required fields
CreateKwargs ==
    { ValidProduct,
      Merge(ValidProduct, [userType |-> "buyer"]),
      Restrict(ValidProduct, (DOMAIN ValidProduct) \ {"price"}),
      Restrict(ValidProduct, (DOMAIN ValidProduct) \ {"name", "price"}),
      Restrict(ValidProduct, (DOMAIN ValidProduct) \ {"category", "sku"}),
      Restrict(ValidProduct, (DOMAIN ValidProduct) \ {"userId"}),
      [userType |-> "seller"],
      EmptyMap }
CreateGens == Gens({CallText(<<"create_product", kwargs>>) : kwargs \in CreateKwargs})

\* the dispatcher on the answers that name create_product
DispatchCreate ==
    \E gen \in CreateGens, up \in BOOLEAN :
        \E r \in {ProcessNaturalLanguageQuery(Store, ProductQuery, EmptyMap, gen, up)} :
            /\ Answering(up, 1, r.calls)
            /\ DispatchStep(ProductQuery, EmptyMap, gen, r)

\* an HTTP request served by one of the handlers, with outcome o
Serve(op, req, gen, o) ==
    /\ StoreBecomes(o.st)
    /\ UNCHANGED <<inflight, kept>>
    /\ last' = [calls |-> o.calls, genCalls |-> o.genCalls, invoked |-> o.invoked, gen |-> gen,
                op |-> op, resp |-> o.resp, req |-> req]

\* no answer: the client is not called
NoGen == [raised |-> FALSE, text |-> <<>>]

\* the answers the client makes to a posted query: calls that read, write
\* and fail to bind, an answer naming no operation, and texts that are no object
QueryGens ==
    Gens({CallText(c) : c \in
             { <<"create_product", ValidProduct>>,
               <<"update_product_quantity", [product_id |-> "p1", quantity |-> 25]>>,
               <<"update_product_quantity", [product_id |-> "p1"]>>,
               <<"get_product_details", [product_id |-> "p1"]>>,
               <<"place_order", [user_id |-> "u1", chat_message |-> "two mice please"]>>,
               <<"update_order_status", [status |-> "shipped", order_id |-> "o1"]>> }}
         \cup { ObjectText(<<JStr("get_weather")>>, <<JObj(EmptyMap)>>, <<Explanation>>),
                <<Prose>> \o UpdateQuantityText \o <<Prose>>,
                <<Prose>>, <<Lit(JNull)>>, <<LB, Prose, RB>> })

\* a blank query is answered without a call, so no answer is drawn for it
GensFor(query) == IF IsBlank(query) THEN {NoGen} ELSE QueryGens

HttpQuery ==
    \E query \in Queries, user_id \in {"u1"}, up \in BOOLEAN :
        \E gen \in GensFor(query) :
            \E o \in {HandleQuery(Store, query, user_id, EmptyMap, gen, up)} :
                /\ Answering(up, 1, o.calls)
                /\ Serve("POST /query", [user_id |-> user_id, query |-> query], gen, o)

HttpCreateProduct ==
    \E name \in {"   ", "Test Gaming Mouse"}, price \in {0, 5}, quantity \in {-1, 15},
       up \in BOOLEAN :
        \E o \in {HandleCreateProduct(Store, ProductCreateBody(name, price, quantity), up)} :
            /\ Answering(up, 1, o.calls)
            /\ Serve("POST /products", ProductCreateBody(name, price, quantity), NoGen, o)

UpdateBodies ==
    { EmptyMap, [price |-> 0], [price |-> 7], [quantity |-> -1], [quantity |-> 25] }

HttpUpdateProduct ==
    \E product_id \in {" ", "p1"}, update_dict \in UpdateBodies, up \in BOOLEAN,
       upRead \in BOOLEAN :
        \E o \in {HandleUpdateProduct(Store, product_id, update_dict, up, upRead)} :
            /\ Answering(up, 1, o.calls)
            /\ Answering(upRead, 2, o.calls)
            /\ Serve("PUT /products/{product_id}",
                     [product_id |-> product_id, update_data |-> update_dict], NoGen, o)

HttpDeleteProduct ==
    \E product_id \in {" ", "p1"}, up \in BOOLEAN :
        \E o \in {HandleDeleteProduct(Store, product_id, up)} :
            /\ Answering(up, 1, o.calls)
            /\ Serve("DELETE /products/{product_id}", [product_id |-> product_id], NoGen, o)

HttpUpdateProductQuantity ==
    \E product_id \in {" ", "p1"}, quantity \in {-1, 0, 25}, up \in BOOLEAN :
        \E o \in {HandleUpdateProductQuantity(Store, product_id, quantity, up)} :
            /\ Answering(up, 1, o.calls)
            /\ Serve("PUT /products/{product_id}/quantity",
                     [product_id |-> product_id, quantity |-> quantity], NoGen, o)

HttpRoot ==
    \E o \in {HandleRoot(Store)} : Serve("GET /", EmptyMap, NoGen, o)

HttpGetSellerProducts ==
    \E user_id \in {" ", "u1"}, page \in {0, 1, 2}, limit \in {0, 4, 10, 101},
       up \in BOOLEAN :
        \E o \in {HandleGetSellerProducts(Store, user_id, page, limit, up)} :
            /\ Answering(up, 1, o.calls)
            /\ Serve("GET /products/seller/{user_id}",
                     [user_id |-> user_id, limit |-> limit, page |-> page], NoGen, o)

HttpGetProduct ==
    \E product_id \in {" ", "p1"}, up \in BOOLEAN :
        \E o \in {HandleGetProduct(Store, product_id, up)} :
            /\ Answering(up, 1, o.calls)
            /\ Serve("GET /products/{product_id}", [product_id |-> product_id], NoGen, o)

HttpSearchSellerProducts ==
    \E user_id \in {" ", "u1"}, search_term \in {"", "Test Gaming Mouse"},
       category \in {"", "Electronics"}, up \in BOOLEAN :
        \E o \in {HandleSearchSellerProducts(Store, user_id, search_term, category, up)} :
            /\ Answering(up, 1, o.calls)
            /\ Serve("GET /products/seller/{user_id}/search",
                     [user_id |-> user_id, search_term |-> search_term,
                      category |-> category], NoGen, o)

\* what the client answers to the extraction and to the confirmation prompt
ParsedOrderText ==
    <<LB, Pairs([items |-> <<[quantity |-> 2, name |-> "mouse"]>>,
                 special_instructions |-> Str(<<"gift wrap">>),
                 delivery_preference |-> Str(<<"pickup">>),
                 additional_requirements |-> Str(<<"">>),
                 ai_analysis |-> Str(<<"two mice, gift wrapped">>)]), RB>>
NamelessItemText == <<LB, Pairs([items |-> <<[quantity |-> 2]>>]), RB>>
PlaceGens == Gens({ParsedOrderText, <<Prose>>})
ConfirmGens == Gens({<<Prose>>})
ChatGens == Gens({ParsedOrderText, <<Prose>>, NamelessItemText, <<LB, RB>>})

OrderRequests ==
    { [user_id |-> user_id, chat_message |-> chat_message,
       order_details |-> order_details, use_ai_processing |-> use_ai_processing] :
        user_id \in {" ", "u1"}, chat_message \in {"", "two mice please"},
        order_details \in {[notes |-> "call first"]},
        use_ai_processing \in BOOLEAN }

\* the request reaches the extraction, and the extraction the confirmation
Extracts(req) ==
    ~IsBlank(req.user_id) /\ ~IsBlank(req.chat_message) /\ req.use_ai_processing

HttpPlaceOrder ==
    \E req \in OrderRequests, up \in BOOLEAN :
        \E genExtract \in IF Extracts(req) THEN PlaceGens ELSE {NoGen} :
            \E genConfirm \in IF Extracts(req) /\ ~genExtract.raised
                              THEN ConfirmGens ELSE {NoGen} :
                \E o \in {HandlePlaceOrder(Store, req, genExtract, genConfirm, up)} :
                    /\ Answering(up, 1, o.calls)
                    /\ Serve("POST /place_order", req,
                             [extract |-> genExtract, confirm |-> genConfirm], o)

HttpProcessChat ==
    \E user_id \in {" ", "u1"}, message \in {"", "two mice please"} :
        \E gen \in IF IsBlank(user_id) \/ IsBlank(message) THEN {NoGen} ELSE ChatGens :
            \E o \in {HandleProcessChat(Store, user_id, message, gen)} :
                Serve("POST /process_chat", [user_id |-> user_id, message |-> message],
                      gen, o)

ModifyGens == Gens({ParsedOrderText, <<Prose>>})

HttpModifyOrder ==
    \E order_id \in {" ", "o1"}, modification_message \in {"", "make it three"},
       upRead \in BOOLEAN, up \in BOOLEAN :
        \E gen \in IF IsBlank(order_id) \/ ~upRead \/ order_id \notin DOMAIN orders
                   THEN {NoGen} ELSE ModifyGens :
            \E o \in {HandleModifyOrder(Store, order_id, modification_message, gen,
                                        upRead, up)} :
                /\ Answering(upRead, 1, o.calls)
                /\ Answering(up, 2, o.calls)
                /\ Serve("PUT /order/{order_id}/modify",
                         [order_id |-> order_id,
                          modification_message |-> modification_message],
                         gen, o)

HttpGetUserOrders ==
    \E user_id \in {" ", "u1"}, up \in BOOLEAN :
        \E o \in {HandleGetUserOrders(Store, user_id, up)} :
            /\ Answering(up, 1, o.calls)
            /\ Serve("GET /user/{user_id}/orders", [user_id |-> user_id], NoGen, o)

HttpGetOrder ==
    \E order_id \in {" ", "o1"}, up \in BOOLEAN :
        \E o \in {HandleGetOrder(Store, order_id, up)} :
            /\ Answering(up, 1, o.calls)
            /\ Serve("GET /order/{order_id}", [order_id |-> order_id], NoGen, o)

\* the statuses the model sends: one the specification lists, one it does not
Statuses == {"completed", "shipped"}

HttpUpdateOrderStatus ==
    \E order_id \in {" ", "o1"}, status \in Statuses, up \in BOOLEAN :
        \E o \in {HandleUpdateOrderStatus(Store, order_id, status, up)} :
            /\ Answering(up, 1, o.calls)
            /\ Serve("PUT /order/{order_id}/status",
                     [status |-> status, order_id |-> order_id], NoGen, o)

\* the answers that name an order operation
OrderCalls ==
    { <<"place_order", [user_id |-> "u1", chat_message |-> "two mice please"]>>,
      <<"update_order_status", [status |-> "completed", order_id |-> "o1"]>>,
      <<"update_order_status", [status |-> "shipped", order_id |-> "o1"]>>,
      <<"get_order_details", [order_id |-> "o1"]>>,
      <<"get_user_orders", [user_id |-> "u1"]>> }
OrderGens == Gens({CallText(c) : c \in OrderCalls})

\* the dispatcher on the answers that name an order operation
DispatchOrder ==
    \E gen \in OrderGens, up \in BOOLEAN :
        \E r \in {ProcessNaturalLanguageQuery(Store, ProductQuery, EmptyMap, gen, up)} :
            /\ Answering(up, 1, r.calls)
            /\ DispatchStep(ProductQuery, EmptyMap, gen, r)

\* firebase_client.create_product(product_data) for a seller: u1 lists up to
\* MaxSellerProducts products, u2 one
CreateSellerProduct ==
    \E user_id \in {"u1", "u2"} :
        \E r \in {FbCreateProduct(Store, [ValidProduct EXCEPT !.userId = user_id], TRUE)} :
            /\ Cardinality(SellerIds(Store, user_id)) <
                  (IF user_id = "u1" THEN MaxSellerProducts ELSE 1)
            /\ products' = r.st.products
            /\ productIds' = r.st.productIds
            /\ UNCHANGED <<orders, orderIds, inflight, kept>>
            /\ last' = [user_id |-> user_id, op |-> "createProduct", out |-> r.ret]

\* firebase_client.get_seller_products(user_id, page, limit)
GetSellerProducts ==
    \E user_id \in {"u1", "u2"}, page \in {1, 2, 3}, limit \in {1, 4, 10}, up \in BOOLEAN :
        \E r \in {FbGetSellerProducts(Store, user_id, page, limit, up)} :
            /\ UNCHANGED <<products, orders, productIds, orderIds, inflight, kept>>
            /\ last' = [calls |-> r.calls,
                        raised |-> r.raised,
                        op |-> "getSellerProducts",
                        out |-> IF r.raised THEN <<r.msg>> ELSE <<r.ret>>,
                        req |-> [user_id |-> user_id, limit |-> limit, page |-> page]]

\* the dispatcher on the answers that name get_seller_products
DispatchSellerProducts ==
    \E m \in { [user_id |-> "u1"], [user_id |-> "u1", limit |-> 10, page |-> 2],
                [user_id |-> "u1", page |-> 2], [user_id |-> "u1", limit |-> 0] },
       up \in BOOLEAN :
        \E gen \in {GenText(CallText(<<"get_seller_products", m>>))} :
            \E r \in {ProcessNaturalLanguageQuery(Store, "Show me all my products",
                                                  EmptyMap, gen, up)} :
                DispatchStep("Show me all my products", EmptyMap, gen, r)

\* the dispatcher on the answers that name a lookup by id
DispatchLookup ==
    \E c \in { <<"get_product_details", [product_id |-> "p1"]>>,
                <<"get_order_details", [order_id |-> "o1"]>> },
       up \in BOOLEAN :
        \E gen \in {GenText(CallText(c))} :
            \E r \in {ProcessNaturalLanguageQuery(Store, "Show me p1 and o1", EmptyMap,
                                                  gen, up)} :
                DispatchStep("Show me p1 and o1", EmptyMap, gen, r)

(***************************************************************************)
(* Requests served at the same time.  A handler makes its store calls one  *)
(* after the other, and the calls of different requests interleave.        *)
(* inflight[i] is request i: where its handler stands, whether its write   *)
(* was applied and as the how-manieth, and the response it has built.      *)
(***************************************************************************)
\* the updates of product p1 that arrive together, each valid
ProductWrites ==
    { [req |-> [product_id |-> "p1", quantity |-> quantity],
       route |-> "PUT /products/{product_id}/quantity"] : quantity \in {0, 25} }
    \cup
    { [req |-> [product_id |-> "p1", update_data |-> update_dict],
       route |-> "PUT /products/{product_id}"] :
          update_dict \in {[quantity |-> 7], [price |-> 7]} }

\* the writes the store has applied so far
Applied == {i \in DOMAIN inflight : inflight[i].seq > 0}

\* the handler of request i has validated it and stands before its store call
Arrive ==
    \E i \in (1..MaxRequests) \ DOMAIN inflight, w \in ProductWrites :
        /\ inflight' = Merge(inflight,
                             (i :> [ok |-> FALSE, calls |-> <<>>, seq |-> 0,
                                    resp |-> <<>>, req |-> w.req, route |-> w.route,
                                    pc |-> "write"]))
        /\ UNCHANGED <<products, orders, productIds, orderIds, last, kept>>

\* the store call of request i, with outcome r, and the handler up to its
\* next store call
Written(i, r, resp) ==
    /\ StoreBecomes(r.st)
    /\ inflight' = [inflight EXCEPT ![i] =
                        [@ EXCEPT !.ok = r.ret,
                                  !.seq = IF r.ret THEN Cardinality(Applied) + 1 ELSE 0,
                                  !.calls = r.calls,
                                  !.pc = IF resp = <<>> THEN "read" ELSE "respond",
                                  !.resp = resp]]
    /\ UNCHANGED <<last, kept>>

\* firebase_client.update_product_quantity(product_id, quantity) of request i
WriteQuantity ==
    \E i \in DOMAIN inflight, up \in BOOLEAN :
        /\ inflight[i].pc = "write"
        /\ inflight[i].route = "PUT /products/{product_id}/quantity"
        /\ \E r \in {FbUpdateProductQuantity(Store, inflight[i].req.product_id,
                                              inflight[i].req.quantity, up)} :
              Written(i, r,
                  <<HandleUpdateProductQuantity(Store, inflight[i].req.product_id,
                                                inflight[i].req.quantity, up).resp>>)

\* firebase_client.update_product(product_id, update_dict) of request i
WriteUpdate ==
    \E i \in DOMAIN inflight, up \in BOOLEAN :
        /\ inflight[i].pc = "write"
        /\ inflight[i].route = "PUT /products/{product_id}"
        /\ \E r \in {FbUpdateProduct(Store, inflight[i].req.product_id,
                                      inflight[i].req.update_data, up)} :
              Written(i, r,
                  IF r.ret THEN <<>> ELSE <<HttpError(500, <<"Failed to update product">>)>>)

\* firebase_client.get_product_by_id(product_id) of request i: the read-back
ReadBack ==
    \E i \in DOMAIN inflight, up \in BOOLEAN :
        /\ inflight[i].pc = "read"
        /\ \E g \in {FbGetProductById(Store, inflight[i].req.product_id, up)} :
              inflight' = [inflight EXCEPT ![i] =
                  [@ EXCEPT !.pc = "respond",
                            !.calls = @ \o g.calls,
                            !.resp = <<Ok([product_id |-> inflight[i].req.product_id,
                                           success |-> TRUE,
                                           data |-> g.ret,
                                           message |-> <<"Product updated successfully">>])>>]]
        /\ UNCHANGED <<products, orders, productIds, orderIds, last, kept>>

\* the handler of request i returns
Respond ==
    \E i \in DOMAIN inflight :
        /\ inflight[i].pc = "respond"
        /\ inflight' = [inflight EXCEPT ![i].pc = "done"]
        /\ last' = [calls |-> inflight[i].calls, genCalls |-> 0, invoked |-> <<>>,
                    gen |-> NoGen, op |-> inflight[i].route,
                    resp |-> inflight[i].resp[1], req |-> inflight[i].req]
        /\ UNCHANGED <<products, orders, productIds, orderIds, kept>>

ChatMessages == {"two mice please", "cancel that", ""}

IntakeTexts ==
    { <<LB, Pairs([items |-> <<[quantity |-> 2, name |-> "mouse"]>>,
                   special_instructions |-> Str(<<"gift wrap">>),
                   delivery_preference |-> Str(<<"pickup">>),
                   additional_requirements |-> Str(<<"">>),
                   ai_analysis |-> Str(<<"two mice, gift wrapped">>)]), RB>>,
      <<Prose, LB, Pairs([items |-> <<[quantity |-> 2, name |-> "mouse"]>>]), RB, Prose>>,
      <<LB, RB>>,
      <<LB, Pairs([items |-> <<>>]), RB, Prose, LB, RB>>,
      <<LB, Pairs([items |-> <<>>]), RB, Prose, RB>>,
      <<LB, Pairs([ai_analysis |-> Str(<<"no order here">>)]), RB>>,
      <<Prose, LB, Prose, RB, Prose>>,
      <<LB, LB, RB, RB>>,
      <<LongProse>>,
      <<Prose, LongProse>>,
      <<LongProse, LB, RB>> }
    \cup MalformedTexts

\* gemini_service.process_order_message(chat_message, user_id)
ExtractOrder ==
    \E chat_message \in ChatMessages, user_id \in UserIds, gen \in Gens(IntakeTexts) :
        /\ UNCHANGED <<products, orders, productIds, orderIds, inflight, kept>>
        /\ last' = [user_id |-> user_id, chat_message |-> chat_message,
                    genCalls |-> 1, gen |-> gen, op |-> "extractOrder",
                    out |-> ProcessOrderMessage(chat_message, user_id, gen)]

\* the same call, kept in `kept` with the number of orders placed before it,
\* for the comparison with a later call
ExtractOrderKept ==
    \E chat_message \in {"two mice please"}, user_id \in {"u1"}, gen \in Gens(IntakeTexts) :
        \E out \in {ProcessOrderMessage(chat_message, user_id, gen)} :
            /\ kept = <<>>
            /\ UNCHANGED <<products, orders, productIds, orderIds, inflight>>
            /\ last' = [user_id |-> user_id, chat_message |-> chat_message,
                        genCalls |-> 1, gen |-> gen, op |-> "extractOrder", out |-> out]
            /\ kept' = <<[orderIds |-> orderIds, user_id |-> user_id,
                          chat_message |-> chat_message, gen |-> gen, out |-> out]>>

\* gemini_service.generate_order_confirmation(order_details)
ConfirmOrder ==
    \E order_details \in {FailedOrderDetails("two mice please")}, gen \in ConfirmGens :
        /\ UNCHANGED <<products, orders, productIds, orderIds, inflight, kept>>
        /\ last' = [order_details |-> order_details, genCalls |-> 1,
                    gen |-> gen, op |-> "confirmOrder",
                    out |-> GenerateOrderConfirmation(order_details, gen)]

\* gemini_service.handle_order_modification(original_order, modification_request)
ApplyModification ==
    \E original_order \in {[items |-> <<>>]} \cup {orders[id] : id \in DOMAIN orders},
       modification_request \in {"", "make it three"}, gen \in ModifyGens :
        /\ UNCHANGED <<products, orders, productIds, orderIds, inflight, kept>>
        /\ last' = [genCalls |-> 1, gen |-> gen,
                    op |-> "applyModification",
                    out |-> HandleOrderModification(original_order,
                                                    modification_request, gen),
                                                    original_order |-> original_order,
                    modification_request |-> modification_request]

Next ==
    \/ Dispatch
    \/ DispatchBlank
    \/ HttpQuery
    \/ ExtractOrder
    \/ HttpCreateProduct
    \/ HttpUpdateProduct
    \/ HttpDeleteProduct
    \/ HttpUpdateProductQuantity
    \/ DispatchProduct
    \/ HttpRoot
    \/ HttpGetSellerProducts
    \/ HttpGetProduct
    \/ HttpSearchSellerProducts
    \/ HttpPlaceOrder
    \/ HttpProcessChat
    \/ HttpModifyOrder
    \/ HttpGetUserOrders
    \/ HttpGetOrder
    \/ HttpUpdateOrderStatus
    \/ DispatchOrder
    \/ CreateSellerProduct
    \/ GetSellerProducts
    \/ DispatchSellerProducts
    \/ DispatchLookup
    \/ Arrive
    \/ WriteQuantity
    \/ WriteUpdate
    \/ ReadBack
    \/ Respond
    \/ ConfirmOrder
    \/ ApplyModification
    \/ ExtractOrderKept
    \/ DispatchContext
    \/ DispatchCreate

Spec == Init /\ [][Next]_vars

\* the dispatcher and its HTTP front door
NextDispatch ==
    \/ Dispatch
    \/ DispatchBlank
    \/ HttpQuery
SpecDispatch == Init /\ [][NextDispatch]_vars

\* the dispatcher with the context of a request, over a store with products
NextPrompt ==
    \/ DispatchContext
    \/ DispatchProduct
    \/ DispatchCreate
SpecPrompt == Init /\ [][NextPrompt]_vars

\* the intake pipeline
NextIntake == ExtractOrder
SpecIntake == Init /\ [][NextIntake]_vars

\* the product collection: its HTTP endpoints and the dispatcher's callables
NextProducts ==
    \/ HttpCreateProduct
    \/ HttpUpdateProduct
    \/ HttpDeleteProduct
    \/ HttpUpdateProductQuantity
    \/ DispatchProduct
SpecProducts == Init /\ [][NextProducts]_vars

\* the order collection: its HTTP endpoints and the dispatcher's callables
NextOrders ==
    \/ HttpPlaceOrder
    \/ HttpModifyOrder
    \/ HttpGetUserOrders
    \/ HttpGetOrder
    \/ HttpUpdateOrderStatus
    \/ DispatchOrder
SpecOrders == Init /\ [][NextOrders]_vars

\* the lookups of a product or an order by id, and what fills the store
NextLookup ==
    \/ HttpCreateProduct
    \/ HttpPlaceOrder
    \/ HttpGetProduct
    \/ HttpGetOrder
    \/ HttpModifyOrder
    \/ DispatchLookup
SpecLookup == Init /\ [][NextLookup]_vars

\* every route of the HTTP surface
NextHttp ==
    \/ HttpRoot
    \/ HttpQuery
    \/ HttpCreateProduct
    \/ HttpGetSellerProducts
    \/ HttpGetProduct
    \/ HttpUpdateProduct
    \/ HttpDeleteProduct
    \/ HttpSearchSellerProducts
    \/ HttpUpdateProductQuantity
    \/ HttpPlaceOrder
    \/ HttpProcessChat
    \/ HttpModifyOrder
    \/ HttpGetUserOrders
    \/ HttpGetOrder
    \/ HttpUpdateOrderStatus
SpecHttp == Init /\ [][NextHttp]_vars

\* the operations that call the text-generation client, each called directly
NextGenerate ==
    \/ DispatchProduct
    \/ DispatchOrder
    \/ DispatchSellerProducts
    \/ ExtractOrder
    \/ ConfirmOrder
    \/ ApplyModification
SpecGenerate == Init /\ [][NextGenerate]_vars

\* the extraction called again after other calls
NextRepeat ==
    \/ ExtractOrder
    \/ ExtractOrderKept
    \/ ConfirmOrder
    \/ HttpPlaceOrder
SpecRepeat == Init /\ [][NextRepeat]_vars

\* updates of one product served at the same time
NextConcurrent ==
    \/ HttpCreateProduct
    \/ Arrive
    \/ WriteQuantity
    \/ WriteUpdate
    \/ ReadBack
    \/ Respond
SpecConcurrent == Init /\ [][NextConcurrent]_vars

\* the paged listing of a seller's products
NextPaging ==
    \/ CreateSellerProduct
    \/ GetSellerProducts
    \/ HttpGetSellerProducts
    \/ DispatchSellerProducts
SpecPaging == Init /\ [][NextPaging]_vars

(***************************************************************************)
(* The properties.  They are read off `last`, the request served last.     *)
(***************************************************************************)
\* the request l went through the dispatcher and the client answered with a text
ThroughDispatcher(l) ==
    /\ \/ l.op = "dispatch"
       \/ l.op = "POST /query" /\ l.req.query \notin BlankQueries
    /\ ~l.gen.raised

\* the JSON object the answer of l parses to, as a sequence of at most one
AnswerObject(l) ==
    LET p == ParseResponse(l.gen.text)
    IN  IF p.how \in {"direct", "extracted"} /\ p.result.j = "obj"
        THEN <<p.result.m>> ELSE <<>>

NamedFunction(l) == Get(AnswerObject(l)[1], "function_name", JNull)
GivenParameters(l) == Get(AnswerObject(l)[1], "parameters", JObj(EmptyMap))

\* the answer of l names a registered operation
SelectsRegistered(l) ==
    /\ ThroughDispatcher(l)
    /\ AnswerObject(l) # <<>>
    /\ Registered(NamedFunction(l))

\* the answer of l names null, or a name that is not registered
SelectsNone(l) ==
    /\ ThroughDispatcher(l)
    /\ AnswerObject(l) # <<>>
    /\ NamedFunction(l).j \in {"null", "str", "num"}
    /\ ~Registered(NamedFunction(l))

\* the parameters of the answer of l are a mapping
HasMapping(l) == SelectsRegistered(l) /\ GivenParameters(l).j = "obj"

\* ... that binds to the signature of the callable, so that the call returns
CallReturns(l) == HasMapping(l) /\ Binds(NamedFunction(l).s, GivenParameters(l).m)

\* C1: process_natural_language_query always returns an envelope with a
\* boolean success flag; whenever an exception was raised inside it (by the
\* client, by the parsing, or by the call of the selected callable) the
\* envelope has success=false and its error carries the exception's message.
C1_EnvelopeNeverRaises ==
    last.op = "dispatch" =>
        /\ "success" \in DOMAIN last.env
        /\ last.env.success \in BOOLEAN
        /\ last.exc # <<>> =>
              /\ last.env.success = FALSE
              /\ last.env.error = <<"Failed to process query: ", last.exc[1].msg>>

\* C1 witness: the call of the selected callable raised
C1_Witness ==
    /\ last.op = "dispatch"
    /\ last.exc # <<>>
    /\ last.exc[1].where = "call"

\* C2: an answer naming null or an unregistered operation gives success=false,
\* no callable invoked and no store call, function_called null, the answer's
\* explanation, and available_functions listing the 11 names of the registry.
C2_NoMatchListsRegistry ==
    last.op = "dispatch" /\ SelectsNone(last) =>
        /\ last.env.success = FALSE
        /\ last.invoked = <<>>
        /\ last.calls = <<>>
        /\ last.env.function_called = JNull
        /\ "explanation" \in DOMAIN AnswerObject(last)[1] =>
              last.env.explanation = AnswerObject(last)[1].explanation
        /\ Len(last.env.available_functions) = 11
        /\ Range(last.env.available_functions) = Range(available_functions)

\* C2 witness: the answer named the unregistered get_weather
C2_Witness ==
    /\ last.op = "dispatch"
    /\ SelectsNone(last)
    /\ NamedFunction(last) = JStr("get_weather")
    /\ last.env.explanation = Explanation

\* C3, as amended: POST /query with an empty or whitespace-only query is
\* answered 400 with success=false and no call of the client, of a callable or
\* of the store; process_natural_language_query of the agent, called with a
\* blank query, does call the client.
C3_BlankRejectedByEndpoint ==
    /\ last.op = "POST /query" /\ last.req.query \in BlankQueries =>
          /\ last.resp.status = 400
          /\ last.resp.body.success = FALSE
          /\ last.genCalls = 0
          /\ last.calls = <<>>
          /\ last.invoked = <<>>
    /\ last.op = "dispatch" /\ last.query \in BlankQueries => last.genCalls = 1

\* C3 witness: a whitespace-only query was posted
C3_Witness ==
    /\ last.op = "POST /query"
    /\ last.req.query = "   "
    /\ last.resp.status = 400

\* C3 as stated: the dispatch of a blank query returns success=false and does
\* not call the client.
C3_Original ==
    last.op = "dispatch" /\ last.query \in BlankQueries =>
        /\ last.env.success = FALSE
        /\ last.genCalls = 0

\* a balanced brace-delimited region: a "{" with its matching "}"
HasBalancedRegion(s) == \E i \in OpenAt(s) : MatchClose(s, i) > 0

\* C4: for an answer without a balanced brace-delimited region the dispatch
\* returns success=false with the raw text attached and invokes no callable.
C4_NoRegionKeepsRawText ==
    last.op = "dispatch" /\ ~last.gen.raised /\ ~HasBalancedRegion(last.gen.text) =>
        /\ last.env.success = FALSE
        /\ "raw_response" \in DOMAIN last.env
        /\ last.env.raw_response = last.gen.text
        /\ last.invoked = <<>>

\* C5: when the answer names a registered operation and the call returns, the
\* envelope (and the body of POST /query) has success=true and `result` is
\* what the callable returns on the store as it was, whatever its own flag.
C5_ResultNestedUnchanged ==
    [][CallReturns(last') =>
          LET env == IF last'.op = "dispatch" THEN last'.env ELSE last'.resp.body
          IN  /\ env.success = TRUE
              /\ \E up \in BOOLEAN :
                    env.result = Invoke(NamedFunction(last').s, Store,
                                        GivenParameters(last').m, up).ret]_vars

\* C5 witness: dispatch-level success with an operation-level failure
C5_Witness ==
    /\ last.op = "dispatch"
    /\ CallReturns(last)
    /\ last.env.success = TRUE
    /\ last.env.result.success = FALSE

\* C6, as amended: when the answer names a registered operation with a
\* parameter mapping that binds to the callable's signature, that callable is
\* invoked once with exactly the parsed parameters, and the envelope has
\* success=true, function_called, the parameters and the callable's result.
C6_InvokedOnceWithParsedParameters ==
    last.op = "dispatch" /\ CallReturns(last) =>
        /\ Len(last.invoked) = 1
        /\ last.invoked[1].name = NamedFunction(last).s
        /\ last.invoked[1].kwargs = GivenParameters(last).m
        /\ last.env.success = TRUE
        /\ last.env.function_called = NamedFunction(last)
        /\ last.env.parameters = GivenParameters(last)
        /\ last.env.result = last.invoked[1].returned

\* C6 witness: update_product_quantity answered with product_id and quantity
C6_Witness ==
    /\ last.op = "dispatch"
    /\ CallReturns(last)
    /\ NamedFunction(last) = JStr("update_product_quantity")
    /\ GivenParameters(last).m = [product_id |-> "p1", quantity |-> 25]
    /\ last.env.result.success = TRUE

\* C6 as stated: any parameter mapping for a registered operation
C6_Original ==
    last.op = "dispatch" /\ HasMapping(last) =>
        /\ Len(last.invoked) = 1
        /\ last.invoked[1].kwargs = GivenParameters(last).m
        /\ last.env.success = TRUE

\* C7, as amended: when the client raises in process_order_message the result
\* has success=false, the error with the exception's message, no items and
\* the analysis text "Failed to process with AI".
C7_ClientFailureReported ==
    last.op = "extractOrder" /\ last.gen.raised =>
        /\ last.out.success = FALSE
        /\ last.out.error = <<"Failed to process order: ", last.gen.msg>>
        /\ last.out.order_details.items = <<>>
        /\ last.out.order_details.ai_analysis = Str(<<"Failed to process with AI">>)

\* C7 witness: the client raised for a chat message
C7_Witness ==
    /\ last.op = "extractOrder"
    /\ last.gen.raised
    /\ last.chat_message = "two mice please"

\* C7 as stated: the placeholder item and the original message as analysis
C7_Original ==
    last.op = "extractOrder" /\ last.gen.raised =>
        /\ last.out.order_details.items = PlaceholderItems
        /\ last.out.order_details.ai_analysis = Str(<<last.chat_message>>)

\* the five fields of the order details
OrderDetailFields ==
    {"items", "special_instructions", "delivery_preference",
     "additional_requirements", "ai_analysis"}

\* the text has no brace-delimited region, or the region is no valid JSON
Unparseable(text) ==
    \/ ~ReSearchMatches(text)
    \/ JsonLoads(ReSearchGroup(text)).j = "fail"

RECURSIVE TextChars(_)
\* number of characters of a text, a cut lexeme counting what is left of it
TextChars(text) ==
    IF text = <<>> THEN 0
    ELSE (IF Head(text).t = "cut" THEN Head(text).chars ELSE Chars(Head(text)))
         + TextChars(Tail(text))

\* a is the beginning of text: its lexemes in order, the last one possibly cut
IsPrefixOf(a, text) ==
    /\ Len(a) <= Len(text)
    /\ \A i \in 1..Len(a) :
          \/ a[i] = text[i]
          \/ i = Len(a) /\ a[i].t = "cut" /\ a[i].of = text[i]

\* C8, as amended: for an unparseable answer the order details have the five
\* fields and the one placeholder item; the analysis text is the first 200
\* characters of the answer when it has no brace-delimited region, and
\* "Original message: " with the chat message when the region is no JSON.
C8_FallbackDetails ==
    last.op = "extractOrder" /\ ~last.gen.raised /\ Unparseable(last.gen.text) =>
        LET d == last.out.order_details
        IN  /\ DOMAIN d = OrderDetailFields
            /\ d.items = PlaceholderItems
            /\ ~ReSearchMatches(last.gen.text) =>
                  /\ d.ai_analysis.str = "text"
                  /\ IsPrefixOf(d.ai_analysis.text, last.gen.text)
                  /\ TextChars(d.ai_analysis.text) =
                        IF TextChars(last.gen.text) < 200
                        THEN TextChars(last.gen.text) ELSE 200
            /\ ReSearchMatches(last.gen.text) =>
                  d.ai_analysis = Str(<<"Original message: ", last.chat_message>>)

\* C8 witness: an answer longer than 200 characters without a brace
C8_Witness ==
    /\ last.op = "extractOrder"
    /\ ~last.gen.raised
    /\ last.gen.text = <<Prose, LongProse>>
    /\ last.out.order_details.ai_analysis.text # last.gen.text

\* C8 as stated: the analysis text is the original message
C8_Original ==
    last.op = "extractOrder" /\ ~last.gen.raised /\ Unparseable(last.gen.text) =>
        /\ last.out.order_details.items = PlaceholderItems
        /\ last.out.order_details.ai_analysis = Str(<<last.chat_message>>)

\* C9: every stored product has price > 0 and quantity >= 0.
C9_StoredProductsValid ==
    \A id \in DOMAIN products :
        /\ products[id].price > 0
        /\ products[id].quantity >= 0

\* a ProductCreate body that passes the validation
ValidBody(body) == body.name \notin WhitespaceOnly \cup {""} /\ body.price > 0 /\ body.quantity >= 0

\* C10: POST /products with price <= 0 is answered 400 before any store call
\* and leaves the product collection as it was; with valid fields it adds
\* exactly one product under a new, non-empty id that it returns, unless the
\* store refuses the write (500, collection as it was).
C10_CreateValidated ==
    [][last'.op = "POST /products" =>
          /\ last'.req.price <= 0 =>
                /\ last'.resp.status = 400
                /\ last'.resp.body.success = FALSE
                /\ last'.calls = <<>>
                /\ products' = products
          /\ ValidBody(last'.req) =>
                \/ /\ last'.resp.status = 200
                   /\ last'.resp.body.success = TRUE
                   /\ last'.resp.body.product_id # ""
                   /\ last'.resp.body.product_id \notin DOMAIN products
                   /\ DOMAIN products' = DOMAIN products \cup {last'.resp.body.product_id}
                   /\ \A id \in DOMAIN products : products'[id] = products[id]
                   /\ products'[last'.resp.body.product_id].price = last'.req.price
                   /\ last'.calls = <<"products.add">>
                \/ /\ last'.resp.status = 500
                   /\ last'.calls = <<"products.add">>
                   /\ products' = products]_vars

\* C10 witness: a product with price 0 was refused
C10_Witness ==
    /\ last.op = "POST /products"
    /\ last.req.price = 0
    /\ last.req.name = "Test Gaming Mouse"
    /\ last.resp.status = 400

\* the statuses of the order data model
OrderStatuses == {"pending", "processing", "completed", "cancelled", "modified"}

\* C11: every stored order's status is one of pending, processing, completed,
\* cancelled, modified, after any placements, status updates and modifications.
C11_StatusInDomain ==
    \A id \in DOMAIN orders : orders[id].status \in OrderStatuses

\* the smaller of two numbers
Min(a, b) == IF a < b THEN a ELSE b

\* ceil(n / l): the least number of pages of l that hold n
CeilDiv(n, l) == CHOOSE k \in 0..n : k * l >= n /\ (k = 0 \/ (k - 1) * l < n)

\* the listing `out` is page p of limit l of the n products of the seller
IsPageOf(out, n, p, l) ==
    /\ out.count = Min(l, IF n - (p - 1) * l > 0 THEN n - (p - 1) * l ELSE 0)
    /\ Len(out.products) = out.count
    /\ out.total_pages = CeilDiv(n, l)
    /\ out.current_page = p

\* C12: with N products of the seller in the store, get_seller_products for
\* page p >= 1 and limit L >= 1 returns min(L, max(0, N - (p-1)*L)) products,
\* total_pages = ceil(N / L), total_count = N and current_page = p, each
\* product one of the seller's; the dispatcher's callable nests the same
\* listing under data, and the HTTP endpoint answers the same count,
\* total_pages and current_page.
C12_Pagination ==
    /\ last.op = "getSellerProducts" /\ ~last.raised =>
          LET out == last.out[1]
              n == Cardinality(SellerIds(Store, last.req.user_id))
          IN  /\ IsPageOf(out, n, last.req.page, last.req.limit)
              /\ out.total_count = n
              /\ \A i \in 1..Len(out.products) :
                    /\ out.products[i].userId = last.req.user_id
                    /\ \A j \in 1..Len(out.products) :
                          i # j => out.products[i].id # out.products[j].id
    /\ last.op = "GET /products/seller/{user_id}" /\ last.resp.status = 200 =>
          IsPageOf(last.resp.body, Cardinality(SellerIds(Store, last.req.user_id)),
                   last.req.page, last.req.limit)
    /\ /\ last.op = "dispatch"
       /\ CallReturns(last)
       /\ NamedFunction(last) = JStr("get_seller_products")
       /\ last.env.result.success
       => LET m == GivenParameters(last).m
              n == Cardinality(SellerIds(Store, m.user_id))
          IN  /\ IsPageOf(last.env.result.data, n, Get(m, "page", 1), Get(m, "limit", 10))
              /\ last.env.result.data.total_count = n

\* C12 witness: page 2 of limit 10 of 15 products is 5 products of 2 pages
C12_Witness ==
    /\ last.op = "getSellerProducts"
    /\ ~last.raised
    /\ Cardinality(SellerIds(Store, "u1")) = 15
    /\ last.req = [user_id |-> "u1", limit |-> 10, page |-> 2]
    /\ last.out[1].count = 5
    /\ last.out[1].total_pages = 2
    /\ last.out[1].current_page = 2

\* C13: a lookup of a product or an order by id is reported as not-found
\* (HTTP 404, or the callable's "... not found") only when the id is missing
\* from the store.
C13_NotFoundOnlyWhenMissing ==
    /\ last.op = "GET /products/{product_id}" /\ last.resp.status = 404 =>
          last.req.product_id \notin DOMAIN products
    /\ last.op \in {"GET /order/{order_id}", "PUT /order/{order_id}/modify"}
          /\ last.resp.status = 404 =>
          last.req.order_id \notin DOMAIN orders
    /\ last.op = "dispatch" /\ CallReturns(last) /\ ~last.env.result.success =>
          /\ last.env.result.error = <<"Product not found">> =>
                GivenParameters(last).m.product_id \notin DOMAIN products
          /\ last.env.result.error = <<"Order not found">> =>
                GivenParameters(last).m.order_id \notin DOMAIN orders

\* the request served last came over HTTP
OverHttp(l) == l.op \notin {"start", "dispatch", "extractOrder", "createProduct",
                            "getSellerProducts"}

\* the uniform error body {success: false, error, details}
UniformErrorBody(resp) ==
    /\ DOMAIN resp.body = {"success", "error", "details"}
    /\ resp.body.success = FALSE
    /\ resp.body.details = <<"HTTP ", ToString(resp.status)>>

\* the routes that look a document up by id before anything else
LookupRoutes ==
    {"GET /products/{product_id}", "GET /order/{order_id}", "PUT /order/{order_id}/modify"}

\* C14, as amended: an error a handler raises is answered 400 (validation),
\* 404 (product or order not found by id) or 500 (internal) with the uniform
\* body {success: false, error, details}; a request the framework rejects
\* before the handler runs is answered 422 with the framework's own body; and
\* POST /query answers a failed dispatch with status 200 and success=false.
C14_ErrorStatuses ==
    OverHttp(last) =>
        /\ last.resp.status \in {200, 400, 404, 422, 500}
        /\ last.resp.status \in {400, 404, 500} => UniformErrorBody(last.resp)
        /\ last.resp.status = 404 => last.op \in LookupRoutes
        /\ last.resp.status = 422 =>
              /\ last.op \in {"GET /products/seller/{user_id}",
                               "PUT /products/{product_id}/quantity"}
              /\ "success" \notin DOMAIN last.resp.body
        /\ last.resp.status = 200 /\ "success" \in DOMAIN last.resp.body
              /\ ~last.resp.body.success => last.op = "POST /query"

\* C14 witness: a lookup of an id that is not stored is answered 404
C14_Witness ==
    /\ last.op = "GET /order/{order_id}"
    /\ last.req.order_id = "o1"
    /\ "o1" \notin DOMAIN orders
    /\ last.resp.status = 404
    /\ UniformErrorBody(last.resp)

\* C14 as stated: every outcome that is no success is answered 400 or 500
\* with the uniform body.
C14_Original ==
    OverHttp(last)
       /\ (last.resp.status # 200
             \/ ("success" \in DOMAIN last.resp.body /\ ~last.resp.body.success)) =>
        /\ last.resp.status \in {400, 500}
        /\ UniformErrorBody(last.resp)

\* the request l has a blank id, query, chat message or search term, a blank
\* product name, a price <= 0, a negative quantity, an empty update, or a page
\* or limit out of range
Invalid(l) ==
    \/ l.op = "POST /query" /\ IsBlank(l.req.query)
    \/ l.op = "POST /products"
          /\ (IsBlank(l.req.name) \/ l.req.price <= 0 \/ l.req.quantity < 0)
    \/ l.op = "GET /products/seller/{user_id}"
          /\ (IsBlank(l.req.user_id) \/ l.req.page < 1 \/ l.req.limit < 1
               \/ l.req.limit > 100)
    \/ l.op \in {"GET /products/{product_id}", "DELETE /products/{product_id}"}
          /\ IsBlank(l.req.product_id)
    \/ l.op = "PUT /products/{product_id}"
          /\ (\/ IsBlank(l.req.product_id)
              \/ DOMAIN l.req.update_data = {}
              \/ ("price" \in DOMAIN l.req.update_data /\ l.req.update_data.price <= 0)
              \/ ("quantity" \in DOMAIN l.req.update_data
                    /\ l.req.update_data.quantity < 0))
    \/ l.op = "GET /products/seller/{user_id}/search"
          /\ (IsBlank(l.req.user_id) \/ IsBlank(l.req.search_term))
    \/ l.op = "PUT /products/{product_id}/quantity"
          /\ (IsBlank(l.req.product_id) \/ l.req.quantity < 0)
    \/ l.op = "POST /place_order"
          /\ (IsBlank(l.req.user_id) \/ IsBlank(l.req.chat_message))
    \/ l.op = "POST /process_chat"
          /\ (IsBlank(l.req.user_id) \/ IsBlank(l.req.message))
    \/ l.op \in {"PUT /order/{order_id}/modify", "GET /order/{order_id}",
                  "PUT /order/{order_id}/status"}
          /\ IsBlank(l.req.order_id)
    \/ l.op = "GET /user/{user_id}/orders" /\ IsBlank(l.req.user_id)

\* C15: on every route a request with a blank id, query, message or search
\* term, a price <= 0, a negative quantity or an empty update, and no other
\* request, is rejected as a validation error (400, or 422 by the
\* framework); it is answered without any call of the document store, of the
\* text-generation client or of a callable, and the store is as it was.
C15_RejectedBeforeRemoteCalls ==
    [][OverHttp(last') =>
          /\ Invalid(last') <=> last'.resp.status \in {400, 422}
          /\ last'.resp.status \in {400, 422} =>
                /\ last'.calls = <<>>
                /\ last'.genCalls = 0
                /\ last'.invoked = <<>>
                /\ products' = products
                /\ orders' = orders
                /\ productIds' = productIds
                /\ orderIds' = orderIds]_vars

\* C15 witness: an update with price 0 of a stored product was rejected
C15_Witness ==
    /\ last.op = "PUT /products/{product_id}"
    /\ last.req.product_id \in DOMAIN products
    /\ last.req.update_data = [price |-> 0]
    /\ last.resp.status = 400
    /\ last.calls = <<>>

\* the fields request i writes to its product
WriteOf(i) ==
    IF inflight[i].route = "PUT /products/{product_id}/quantity"
    THEN [quantity |-> inflight[i].req.quantity]
    ELSE inflight[i].req.update_data

\* C16: updates of one product served at the same time are neither
\* serialized nor rejected because of each other: a request reports success
\* exactly when its own write was applied, whatever the other request did,
\* and every field holds the value of the write applied last among the
\* writes of that field.
C16_LastWriteWins ==
    \A i \in DOMAIN inflight :
        /\ inflight[i].pc = "done" =>
              (inflight[i].resp[1].status = 200 <=> inflight[i].ok)
        /\ inflight[i].ok =>
              /\ inflight[i].req.product_id \in DOMAIN products
              /\ \A f \in DOMAIN WriteOf(i) :
                    \/ products[inflight[i].req.product_id][f] = WriteOf(i)[f]
                    \/ \E j \in DOMAIN inflight :
                          /\ inflight[j].ok
                          /\ inflight[j].seq > inflight[i].seq
                          /\ f \in DOMAIN WriteOf(j)

\* C16 witness: two quantity updates of one product are both still in their
\* handlers, neither has returned, and both writes have been applied, that
\* of request 1 after that of request 2; both are about to report success
\* and the product holds the quantity of request 1
C16_Witness ==
    /\ DOMAIN inflight = {1, 2}
    /\ \A i \in {1, 2} :
          /\ inflight[i].route = "PUT /products/{product_id}/quantity"
          /\ inflight[i].pc = "respond"
          /\ inflight[i].resp[1].status = 200
          /\ Len(inflight[i].calls) = 1
    /\ inflight[1].seq = 2
    /\ inflight[2].seq = 1
    /\ inflight[1].req.quantity # inflight[2].req.quantity
    /\ products["p1"].quantity = inflight[1].req.quantity

\* no call appears twice in a sequence of store calls
NoRepeat(calls) ==
    \A i, j \in 1..Len(calls) : i # j => calls[i] # calls[j]

\* C17: one invocation of the dispatcher, of the extraction, of the
\* confirmation or of the modification calls the text-generation client at
\* most once; the dispatcher invokes at most one callable and makes no store
\* call a second time; when the client call failed nothing more is called and
\* the failed result (for the confirmation: the fixed text) is returned, and
\* when the callable failed its failure is what the dispatcher returns.
C17_NoRetry ==
    /\ last.op \in {"dispatch", "extractOrder", "confirmOrder", "applyModification"} =>
          last.genCalls <= 1
    /\ last.op = "dispatch" =>
          /\ Len(last.invoked) <= 1
          /\ NoRepeat(last.calls)
          /\ last.invoked = <<>> => last.calls = <<>>
          /\ last.gen.raised =>
                /\ last.invoked = <<>>
                /\ last.env = [success |-> FALSE,
                               error |-> Fmt(<<"Failed to process query: ", last.gen.msg>>)]
          /\ last.invoked # <<>> => last.env.result = last.invoked[1].returned
    /\ last.op \in {"extractOrder", "applyModification"} /\ last.gen.raised =>
          ~last.out.success
    /\ last.op = "confirmOrder" /\ last.gen.raised =>
          last.out = Str(<<"Thank you for your order! We've received it and will process it shortly.">>)

\* C17 witness: the dispatcher invoked delete_product on a stored product,
\* the one store call failed, and the failure was returned with the product
\* still stored
C17_Witness ==
    /\ last.op = "dispatch"
    /\ last.genCalls = 1
    /\ Len(last.invoked) = 1
    /\ last.invoked[1].name = "delete_product"
    /\ ~last.invoked[1].returned.success
    /\ last.calls = <<"products.document.delete">>
    /\ last.invoked[1].kwargs.product_id \in DOMAIN products

\* C18: the registry holds 11 descriptors with pairwise different names and
\* 11 callables, and the descriptor names are the callable keys; after any
\* sequence of dispatches the registry a dispatch lists is that registry and
\* the callable a dispatch invokes is one of it.
C18_RegistryBijective ==
    /\ Len(function_descriptions) = 11
    /\ Len(available_functions) = 11
    /\ Cardinality(Range(function_descriptions)) = Len(function_descriptions)
    /\ Cardinality(Range(available_functions)) = Len(available_functions)
    /\ Range(function_descriptions) = Range(available_functions)
    /\ last.op = "dispatch" =>
          /\ "available_functions" \in DOMAIN last.env =>
                last.env.available_functions = function_descriptions
          /\ \A i \in 1..Len(last.invoked) :
                /\ last.invoked[i].name \in Range(function_descriptions)
                /\ last.invoked[i].name \in Range(available_functions)

\* C18 witness: after a dispatch that invoked create_product and stored a
\* product, a dispatch found no match and listed the registry
C18_Witness ==
    /\ last.op = "dispatch"
    /\ "available_functions" \in DOMAIN last.env
    /\ Len(last.env.available_functions) = 11
    /\ last.invoked = <<>>
    /\ productIds > 0

\* the request served by this step placed an order: POST /place_order
\* answered 200, or the dispatcher's place_order returned success
Placed(l) ==
    \/ l.op = "POST /place_order" /\ l.resp.status = 200
    \/ /\ l.op = "dispatch"
       /\ l.invoked # <<>>
       /\ l.invoked[1].name = "place_order"
       /\ l.invoked[1].returned.success

\* the id the placement reports
PlacedId(l) ==
    IF l.op = "dispatch" THEN l.invoked[1].returned.data.order_id
    ELSE l.resp.body.order_id

\* C19: a successful placement, over HTTP or through the dispatcher, adds
\* exactly one order, under the id it reports and with status pending, and
\* leaves the other orders as they were; no step removes an order.
C19_OrdersOnlyGrow ==
    [][/\ DOMAIN orders \subseteq DOMAIN orders'
       /\ Placed(last') =>
             /\ PlacedId(last') \notin DOMAIN orders
             /\ DOMAIN orders' = DOMAIN orders \cup {PlacedId(last')}
             /\ orders'[PlacedId(last')].status = "pending"
             /\ \A id \in DOMAIN orders : orders'[id] = orders[id]]_vars

\* C19 witness: the dispatcher's place_order has stored order o1, pending
C19_Witness ==
    /\ Placed(last)
    /\ last.op = "dispatch"
    /\ PlacedId(last) = "o1"
    /\ DOMAIN orders = {"o1"}
    /\ orders["o1"].status = "pending"

\* C20: every stored product, created over HTTP or through the dispatcher,
\* carries a userId and is among the documents the seller listing of that
\* user selects.
C20_CreatedProductsOwned ==
    \A id \in DOMAIN products :
        /\ "userId" \in DOMAIN products[id]
        /\ id \in SellerIds(Store, products[id].userId)

C22_PromptCarriesContext ==
    (last.op = "dispatch" /\ last.genCalls = 1) =>
        /\ last.prompt.query = last.query
        /\ last.prompt.functions = function_descriptions
        /\ "preamble" \in DOMAIN last.prompt
        /\ last.prompt.preamble = CreateSystemPrompt(last.context).preamble
        /\ "lines" \in DOMAIN last.prompt
        /\ last.prompt.lines = last.context

\* C23: when the direct parse fails and the brace-delimited region does not
\* parse either, the dispatcher returns success false with the raw model text
\* attached, the same result as for a text without a brace-delimited region
C23_SecondFailureKeepsRawText ==
    (/\ last.op = "dispatch"
     /\ ~last.gen.raised
     /\ ParseResponse(last.gen.text).how = "decode_error") =>
        /\ last.env.success = FALSE
        /\ "raw_response" \in DOMAIN last.env
        /\ last.env = ParseFailEnvelope(last.gen.text)

\* the first balanced brace-delimited region of a text that holds one
FirstBalancedRegion(s) ==
    LET i == SetMin(OpenAt(s)) IN SubSeq(s, i, MatchClose(s, i))

\* the text does not parse directly, and its first balanced region is an
\* object that names a registered operation with parameters that bind
FirstRegionNamesCall(s) ==
    /\ JsonLoads(s).j = "fail"
    /\ OpenAt(s) # {}
    /\ MatchClose(s, SetMin(OpenAt(s))) > 0
    /\ LET v == JsonLoads(FirstBalancedRegion(s))
       IN  /\ v.j = "obj"
           /\ Registered(Get(v.m, "function_name", JNull))
           /\ Get(v.m, "parameters", JObj(EmptyMap)).j = "obj"
           /\ Binds(v.m.function_name.s, Get(v.m, "parameters", JObj(EmptyMap)).m)

\* C24: when the direct parse fails and the first balanced brace-delimited
\* region of the text is an object naming a registered operation, the
\* operation is dispatched, whatever braces or objects follow that region
C24_FirstRegionDispatched ==
    (/\ last.op = "dispatch"
     /\ ~last.gen.raised
     /\ FirstRegionNamesCall(last.gen.text)) =>
        /\ last.invoked # <<>>
        /\ last.invoked[1].name =
               JsonLoads(FirstBalancedRegion(last.gen.text)).m.function_name.s

\* the nine required fields of a product, in their fixed order
NineRequired ==
    <<"category", "companyName", "description", "imageUrl", "name", "price",
      "quantity", "sku", "userId">>

\* the dispatcher's last call was create_product
CreateInvoked(l) ==
    /\ l.op = "dispatch"
    /\ l.invoked # <<>>
    /\ l.invoked[1].name = "create_product"

\* the required fields the call lacks, as positions of NineRequired
Lacking(l) == {i \in 1..9 : NineRequired[i] \notin DOMAIN l.invoked[1].kwargs}

\* C25: create_product lacking a required field makes no store call, leaves
\* the products alone and returns success false naming the first missing
\* field of the fixed order; with every required field and no userType the
\* product is stored with userType "seller"
C25_CreateChecksRequired ==
    [][CreateInvoked(last') =>
          IF Lacking(last') # {}
          THEN /\ last'.calls = <<>>
               /\ products' = products
               /\ productIds' = productIds
               /\ last'.invoked[1].returned =
                      [success |-> FALSE,
                       error |-> <<"Missing required field: ",
                                   NineRequired[SetMin(Lacking(last'))]>>]
          ELSE last'.invoked[1].returned.success =>
                  /\ DOMAIN products' = DOMAIN products
                                          \cup {last'.invoked[1].returned.data.product_id}
                  /\ products'[last'.invoked[1].returned.data.product_id].userType =
                         Get(last'.invoked[1].kwargs, "userType", "seller")]_vars

\* a call lacking name and price is refused naming name, while the store
\* holds a product stored without a userType of its own as a seller's
C25_Witness ==
    /\ CreateInvoked(last)
    /\ Lacking(last) = {5, 6}
    /\ last.invoked[1].returned.error = <<"Missing required field: ", "name">>
    /\ last.calls = <<>>
    /\ \E id \in DOMAIN products : products[id].userType = "seller"

\* C26: an HTTP request makes at most one round trip to the text-generation
\* service and at most one round trip to the document store
C26_OneRoundTripEach ==
    "resp" \in DOMAIN last => (last.genCalls <= 1 /\ Len(last.calls) <= 1)

\* C27: a dispatch that returns success false at the dispatch level has
\* invoked no callable and no store operation, and leaves products and
\* orders as they were
C27_FailedDispatchTouchesNothing ==
    [][(last'.op = "dispatch" /\ ~last'.env.success) =>
          /\ last'.invoked = <<>>
          /\ last'.calls = <<>>
          /\ products' = products
          /\ orders' = orders]_vars

\* the call of a registered operation failed to bind, over a store that holds
\* a product and an order
C27_Witness ==
    /\ last.op = "dispatch"
    /\ ~last.env.success
    /\ last.exc # <<>>
    /\ last.exc[1].where = "call"
    /\ products # EmptyMap
    /\ orders # EmptyMap

\* the last request served was PUT /order/{order_id}/modify
ModifyServed(l) == l.op = "PUT /order/{order_id}/modify"

\* C28: a successful PUT /order/{id}/modify writes the stored order's status
\* (modified) and updated timestamp and nothing else, so the updated_order of
\* the response is not stored; when the order is absent or the modification
\* fails, no store write is made
C28_ModifyWritesStatusOnly ==
    [][ModifyServed(last') =>
          IF last'.resp.status = 200
          THEN LET id == last'.req.order_id
               IN  /\ id \in DOMAIN orders
                   /\ DOMAIN orders' = DOMAIN orders
                   /\ \A o \in DOMAIN orders \ {id} : orders'[o] = orders[o]
                   /\ DOMAIN orders'[id] = DOMAIN orders[id] \cup {"status", "updated_at"}
                   /\ \A k \in DOMAIN orders[id] \ {"status", "updated_at"} :
                          orders'[id][k] = orders[id][k]
                   /\ orders'[id].status = "modified"
                   /\ orders'[id] # last'.resp.body.updated_order
                   /\ orders'[id].order_details = orders[id].order_details
                   /\ orders'[id].chat_message = orders[id].chat_message
                   /\ products' = products
          ELSE (last'.resp.status = 404 \/ last'.gen.raised) =>
                  /\ orders' = orders
                  /\ products' = products
                  /\ \A i \in 1..Len(last'.calls) : last'.calls[i] = "orders.document.get"]_vars

\* a modification was served with details read from the answer, and the
\* stored order keeps the details it was placed with
C28_Witness ==
    /\ ModifyServed(last)
    /\ last.resp.status = 200
    /\ last.resp.body.updated_order.items # <<>>
    /\ orders[last.req.order_id].status = "modified"
    /\ orders[last.req.order_id].order_details # last.resp.body.updated_order

\* POST /place_order was served with AI processing enabled and the
\* extraction failed
PlacedWithFailedIntake(l) ==
    /\ l.op = "POST /place_order"
    /\ Extracts(l.req)
    /\ l.gen.extract.raised

\* C29: in POST /place_order with AI processing enabled a failure of the
\* intake pipeline does not prevent the placement: the order is created once,
\* with the caller's order details, and the response reports success true,
\* ai_processed false and no confirmation message; the request fails only
\* when the store call does
C29_IntakeFailureStillPlaces ==
    [][PlacedWithFailedIntake(last') =>
          /\ last'.calls = <<"orders.add">>
          /\ last'.genCalls = 1
          /\ IF last'.resp.status = 200
             THEN LET id == last'.resp.body.order_id
                  IN  /\ id \notin DOMAIN orders
                      /\ DOMAIN orders' = DOMAIN orders \cup {id}
                      /\ \A o \in DOMAIN orders : orders'[o] = orders[o]
                      /\ orders'[id].order_details = last'.req.order_details
                      /\ orders'[id].chat_message = last'.req.chat_message
                      /\ orders'[id].user_id = last'.req.user_id
                      /\ last'.resp.body.success
                      /\ last'.resp.body.data.order_details = last'.req.order_details
                      /\ ~last'.resp.body.ai_processed
                      /\ last'.resp.body.confirmation_message = <<>>
             ELSE /\ last'.resp = HttpError(500, <<"Failed to place order: ", StoreError>>)
                  /\ orders' = orders]_vars

\* an order was placed although the extraction failed, and the store holds it
C29_Witness ==
    /\ PlacedWithFailedIntake(last)
    /\ last.resp.status = 200
    /\ ~last.resp.body.ai_processed
    /\ orders[last.resp.body.order_id].order_details = last.req.order_details
    /\ orders[last.resp.body.order_id].status = "pending"

\* C30: a successful PUT /products/{id} returns product data holding every
\* field value the request submitted, whatever other requests on the product
\* run between its update and its read-back
C30_ResponseHoldsSubmitted ==
    (/\ last.op = "PUT /products/{product_id}"
     /\ last.resp.status = 200
     /\ last.resp.body.data.found) =>
        \A k \in DOMAIN last.req.update_data :
            last.resp.body.data.doc[k] = last.req.update_data[k]

=============================================================================
